---- MODULE Spec2Model ----
(***************************************************************************)
(* Model of the DaTaK gateway core: the driver orchestrator and the base   *)
(* driver supervisor (services/orchestrator.py, drivers/base.py), the      *)
(* store-and-forward buffer (services/buffer.py) and the automation engine *)
(* (services/automation.py).                                               *)
(*                                                                         *)
(* The program runs on one asyncio event loop: the code between two        *)
(* suspension points (await of I/O, of a sleep, of a subscriber) runs      *)
(* atomically, so every action below is one such segment.                  *)
(***************************************************************************)
EXTENDS Integers, Sequences, FiniteSets, TLC

(***************************************************************************)
(* Bounds of the model.                                                    *)
(***************************************************************************)
MaxCalls == 3        \* orchestrator calls made in one behaviour
MaxInst == 2         \* driver instances constructed in one behaviour
MaxErr == 3          \* cap of a driver's error counter
MaxSubs == 2         \* value subscribers registered
MaxReadings == 3     \* readings handed to BufferQueue.add in one behaviour
MaxDbFail == 1       \* failed database commits in one behaviour
MaxFrames == 6        \* frames of calls and of gathered stops in one behaviour
MaxVoWrites == 2      \* writes to the virtual output in one behaviour
MaxRules == 2        \* automation rules added in one behaviour
MaxTicks == 2        \* ticks of the automation clock in one behaviour
batch_size == 2      \* BufferQueue._batch_size, the constructor's argument

SensorIds == {1, 2}
\* the one sensor that the calls of Spec and SpecFault are about
Solo == {1}
Insts == 1..MaxInst
NoInst == 0
RetryCounts == {1, 2}
Raws == {3}
NoFormula == "<none>"
Formulas == {"val", "val * 2", "val / 0"}

\* Poll-task positions of a driver instance (drivers/base.py _poll_loop).
TaskLive == {"new", "reconnect", "read", "value", "online",
             "offline_in", "offline_out", "sleep"}
TaskEnded == {"done", "failed"}

VARIABLES
  \* DriverOrchestrator
  drivers,          \* _drivers: sensor_id -> driver instance (NoInst: absent)
  formulas,         \* _formulas: sensor_id -> formula text (NoFormula: absent)
  valueSubs,        \* _on_processed_value: list of subscribers
  statusSub,        \* _on_sensor_status: "none", "ok" or "faulty"
  \* BaseDriver instances
  nextInst,         \* number of instances constructed so far
  sensor_id,        \* instance -> sensor_id
  retry_count,      \* instance -> retry_count
  running,          \* instance -> _running
  connected,        \* instance -> _connected
  error_count,      \* instance -> _error_count
  task,             \* instance -> position of _task ("none": no task)
  cancelReq,        \* instance -> task.cancel() was called and not yet processed
  evt,              \* instance -> value event being delivered by the task
  \* orchestrator calls in flight or returned
  calls,
  \* history
  delivered,        \* the last value event a value subscriber received
  lastReturn,       \* the last orchestrator call that returned
  lastStatus,       \* instance -> last status passed to _notify_status
  fails,            \* instance -> consecutive read failures since the last good read
  loopOffline,      \* instance -> the poll loop marked the driver offline
  removed,          \* sensor_id -> remove_sensor returned True, no add_sensor since
  updF,             \* sensor_id -> formula of the last update_formula in force
  stopReturned,     \* DriverOrchestrator.stop has returned
  vout,             \* the sensor of protocol VIRTUAL_OUTPUT: its registration, the
                    \* driver's fields, and what its last write, its last read and
                    \* its value callback have done
  fx,               \* the last call of the formula API: the expression, the
                    \* input, what validate answered and what evaluate ended in
  connFails,        \* instance -> connection attempts failed in a row since start
                    \* or since the last one that succeeded, up to retry_count
  statusRegs,       \* number of on_sensor_status registrations so far
  statusEvt,        \* the last status event: registrations then, subscribers reached
  \* BufferQueue and the sink (services/buffer.py, db/influx.py)
  rows,             \* the sensor_readings table: set of rows
  cloud_available,  \* BufferQueue._cloud_available
  sinkConnected,    \* influx_client.is_connected
  sinkLog,          \* the readings the sink accepted, in order
  accepted,         \* the readings for which add returned True
  nextReading,      \* number of readings handed to add so far
  now,              \* the clock (timestamps, synced_at, cleanup cutoff)
  addCall,          \* sensor -> the add in flight for that sensor
  flushCall,        \* flusher -> the flush in flight
  dbFails,          \* number of failed database commits so far
  flushOverlap,     \* some flush began while another flush was in flight
  quiet,            \* the quiet period of the sink: whether it has begun, and the
                    \* unsynced rows and the length of the sink's log when it began
  \* AutomationEngine (services/automation.py)
  auto_running,     \* AutomationEngine._running
  rules,            \* AutomationEngine._rules, in insertion order
  sensor_values,    \* AutomationEngine._sensor_values, a function on the set names
  clock,            \* time.time()
  evalCall,         \* sensor -> the _handle_update in flight for its event
  lastWrite,        \* rule -> time of its latest write_sensor invocation
  lastGap,          \* rule -> time between its two latest invocations
  writeRaised       \* some write_sensor made for a rule has raised

orchVars == <<drivers, formulas, valueSubs, statusSub>>
drvVars == <<nextInst, sensor_id, retry_count, running, connected, error_count,
             task, cancelReq, evt>>
histVars == <<delivered, lastReturn, lastStatus, fails, loopOffline, removed, updF,
             statusRegs, statusEvt, stopReturned, connFails, vout, fx>>
bufVars == <<rows, cloud_available, sinkConnected, sinkLog, accepted, nextReading,
             now, addCall, flushCall, dbFails, flushOverlap, quiet>>
autoVars == <<auto_running, rules, sensor_values, clock, evalCall, lastWrite,
              lastGap, writeRaised>>
vars == <<orchVars, drvVars, calls, histVars, bufVars, autoVars>>

(***************************************************************************)
(* core/formula.py evaluate_formula on the formulas of the model: the      *)
(* result is <<ok, value>>; ok = FALSE stands for FormulaError.            *)
(***************************************************************************)
evaluate_formula(f, val) ==
  CASE f = "val" -> <<TRUE, val>>
    [] f = "val * 2" -> <<TRUE, val * 2>>
    [] f = "val / 0" -> <<FALSE, 0>>
    [] OTHER -> <<FALSE, 0>>

\* A faulty _handle_value that substitutes 0 when the formula fails: C35 must
\* not survive it.
ProcessedZero(S, d, raw) ==
  LET sid == S.sensor_id[d]
      f == IF S.formulas[sid] = NoFormula THEN "val" ELSE S.formulas[sid]
      r == evaluate_formula(f, raw)
  IN IF r[1] THEN r[2] ELSE 0

\* _handle_value, lines 242-251: the formula of the registry (default "val"),
\* and the raw value when the formula fails.
Processed(S, d, raw) ==
  LET sid == S.sensor_id[d]
      f == IF S.formulas[sid] = NoFormula THEN "val" ELSE S.formulas[sid]
      r == evaluate_formula(f, raw)
  IN IF r[1] THEN r[2] ELSE raw

(***************************************************************************)
(* The state as one record: the operators below are the code's methods,    *)
(* written as functions from the state before to the state after.          *)
(***************************************************************************)
St ==
  [drivers |-> drivers, formulas |-> formulas, valueSubs |-> valueSubs,
   statusSub |-> statusSub, nextInst |-> nextInst, sensor_id |-> sensor_id,
   retry_count |-> retry_count, running |-> running, connected |-> connected,
   error_count |-> error_count, task |-> task, cancelReq |-> cancelReq,
   evt |-> evt, calls |-> calls, delivered |-> delivered, lastReturn |-> lastReturn,
   lastStatus |-> lastStatus, fails |-> fails, loopOffline |-> loopOffline,
   removed |-> removed, updF |-> updF, statusRegs |-> statusRegs,
   statusEvt |-> statusEvt, stopReturned |-> stopReturned, connFails |-> connFails,
   vout |-> vout, fx |-> fx]

Apply(S) ==
  /\ drivers' = S.drivers /\ formulas' = S.formulas
  /\ valueSubs' = S.valueSubs /\ statusSub' = S.statusSub
  /\ nextInst' = S.nextInst /\ sensor_id' = S.sensor_id
  /\ retry_count' = S.retry_count /\ running' = S.running
  /\ connected' = S.connected /\ error_count' = S.error_count
  /\ task' = S.task /\ cancelReq' = S.cancelReq /\ evt' = S.evt
  /\ calls' = S.calls /\ delivered' = S.delivered /\ lastReturn' = S.lastReturn
  /\ lastStatus' = S.lastStatus /\ fails' = S.fails
  /\ loopOffline' = S.loopOffline /\ removed' = S.removed /\ updF' = S.updF
  /\ statusRegs' = S.statusRegs /\ statusEvt' = S.statusEvt
  /\ stopReturned' = S.stopReturned /\ connFails' = S.connFails
  /\ vout' = S.vout /\ fx' = S.fx
  /\ UNCHANGED <<bufVars, autoVars>>

NoDelivery == [sub |-> 0, sid |-> 0, raw |-> 0, proc |-> 0, late |-> FALSE,
               upd |-> NoFormula, afterRaise |-> FALSE]
NoReturn == [op |-> "-", sid |-> 0, res |-> "-", failedAt |-> "-", d |-> NoInst,
             kind |-> "-", oldF |-> NoFormula, removing |-> {},
             wasRunning |-> FALSE, writes |-> 0, out |-> "-"]
NoEvt == [raw |-> 0, proc |-> 0, idx |-> 0, upd |-> NoFormula, raised |-> FALSE]

\* What a subscriber's call may end in.
Outcomes(kind) == IF kind = "faulty" THEN {"ok", "raise"} ELSE {"ok"}

NoCall ==
  [op |-> "-", sid |-> 0, pc |-> "done", d |-> NoInst, nd |-> NoInst,
   formula |-> NoFormula, retry |-> 0, kind |-> "-", failedAt |-> "-",
   oldF |-> NoFormula, removing |-> {}, wasRunning |-> FALSE, writes |-> 0,
   out |-> "-", parent |-> 0]
NewCall(op, sid) == [NoCall EXCEPT !.op = op, !.sid = sid, !.pc = "new"]

SetPc(S, c, pc) == [S EXCEPT !.calls[c].pc = pc]
\* the call returns res: its frame is gone, lastReturn remembers what returned.
Return(S, c, res) ==
  LET r == S.calls[c] IN
  [S EXCEPT !.calls[c] = NoCall,
            !.lastReturn = [op |-> r.op, sid |-> r.sid, res |-> res,
                            failedAt |-> r.failedAt, d |-> r.d, kind |-> r.kind,
                            oldF |-> r.oldF, removing |-> r.removing,
                            wasRunning |-> r.wasRunning, writes |-> r.writes,
                            out |-> r.out]]

\* _handle_status, orchestrator.py lines 270-273, as far as it decides who
\* receives the event: the one callback of _on_sensor_status, if any.
Notified(S, d, status) ==
  [S EXCEPT !.lastStatus[d] = status,
            !.statusEvt = [regs |-> S.statusRegs,
                           to |-> IF S.statusSub = "none" THEN {} ELSE {S.statusRegs}]]
AllReturned == \A c \in 1..Len(calls) : calls[c].pc = "done"

\* connect() of driver d, called from start (line 150) or from _try_reconnect
\* (line 280), has returned True (ok) or has returned False or raised.
Connected(S, d, ok) ==
  [S EXCEPT !.connected[d] = ok,
            !.connFails[d] = IF ok THEN 0
                             ELSE IF @ < S.retry_count[d] THEN @ + 1 ELSE @]

\* DriverOrchestrator.stop, lines 65-71: one driver.stop() of the gather has
\* ended (returned or raised: return_exceptions=True).  When it was the last
\* one, stop clears both dicts and returns.
StopAllEnd(S, p) ==
  Return([S EXCEPT !.drivers = [s \in SensorIds |-> NoInst],
                   !.formulas = [s \in SensorIds |-> NoFormula],
                   !.updF = [s \in SensorIds |-> NoFormula],
                   !.stopReturned = TRUE], p, "true")

GatheredDone(S, c) ==
  LET p == S.calls[c].parent
      S1 == [S EXCEPT !.calls[c] = NoCall]
  IN IF \E k \in 1..Len(S1.calls) : S1.calls[k].op = "gstop" /\ S1.calls[k].parent = p
     THEN S1
     ELSE StopAllEnd(S1, p)

\* stop raised out of its caller, or out of one coroutine of the gather.
StopRaised(S, c) ==
  IF S.calls[c].op = "gstop" THEN GatheredDone(S, c) ELSE Return(S, c, "raised")

(***************************************************************************)
(* BaseDriver.start, drivers/base.py lines 138-162.                        *)
(***************************************************************************)
\* add_sensor lines 128-135 / restart_sensor line 171, after start returned.
AfterStart(S, c) ==
  LET r == S.calls[c] IN
  IF r.op = "add"
  THEN Return([S EXCEPT !.drivers[r.sid] = r.d], c, "true")
  ELSE Return(S, c, "true")

\* start raised: add_sensor lines 137-139 return False, restart propagates.
StartRaised(S, c) ==
  LET r == S.calls[c] IN
  IF r.op = "add"
  THEN Return([S EXCEPT !.calls[c].failedAt = "start"], c, "false")
  ELSE Return(S, c, "raised")

\* line 162: self._task = asyncio.create_task(self._poll_loop())
StartCreateTask(S, c) ==
  LET d == S.calls[c].d IN
  AfterStart([S EXCEPT !.task[d] = "new", !.cancelReq[d] = FALSE], c)

\* lines 153, 156, 159: await self._notify_status(status) inside start.
StartNotify(S, c, status, pc) ==
  LET d == S.calls[c].d
      S1 == Notified(S, d, status)
  IN IF S.statusSub = "none" THEN StartCreateTask(S1, c) ELSE SetPc(S1, c, pc)

\* lines 140-150, up to the await of connect().
DriverStartBegin(S, c) ==
  LET d == S.calls[c].d IN
  IF S.running[d]
  THEN AfterStart(S, c)
  ELSE SetPc([S EXCEPT !.running[d] = TRUE, !.error_count[d] = 0,
                       !.fails[d] = 0, !.loopOffline[d] = FALSE, !.connFails[d] = 0],
             c, "start_connect")

\* A faulty add_sensor that stores the new formula for every sensor: C19 must
\* not survive it.
AddBodyAll(S, c) ==
  LET r == S.calls[c] IN
  IF r.kind = "unknown" THEN Return(S, c, "false")
  ELSE IF r.kind = "ctor_fail"
  THEN Return([S EXCEPT !.calls[c].failedAt = "ctor"], c, "false")
  ELSE LET d == r.nd
           S1 == [S EXCEPT !.sensor_id[d] = r.sid, !.retry_count[d] = r.retry,
                           !.formulas = [s \in SensorIds |-> r.formula],
                           !.updF[r.sid] = NoFormula,
                           !.calls[c].d = d]
       IN DriverStartBegin(S1, c)

(***************************************************************************)
(* DriverOrchestrator.add_sensor, lines 93-126: the part after the         *)
(* removal of an existing driver.  kind is the input's case: a protocol    *)
(* without driver class, a constructor that raises, or a good definition.  *)
(***************************************************************************)
AddBody(S, c) ==
  LET r == S.calls[c] IN
  IF r.kind = "unknown" THEN Return(S, c, "false")
  ELSE IF r.kind = "ctor_fail"
  THEN Return([S EXCEPT !.calls[c].failedAt = "ctor"], c, "false")
  ELSE LET d == r.nd
           S1 == [S EXCEPT !.sensor_id[d] = r.sid, !.retry_count[d] = r.retry,
                           !.formulas[r.sid] = r.formula, !.updF[r.sid] = NoFormula,
                           !.calls[c].d = d]
       IN DriverStartBegin(S1, c)

(***************************************************************************)
(* BaseDriver.stop, lines 164-185.                                         *)
(***************************************************************************)
\* the caller's code after stop returned: remove_sensor lines 152-153,
\* restart line 190 (the pause), add_sensor line 93 onwards.
AfterStop(S, c) ==
  LET r == S.calls[c] IN
  CASE r.op = "remove" -> Return([S EXCEPT !.removed[r.sid] = TRUE], c, "true")
    [] r.op = "restart" -> SetPc(S, c, "sleep")
    [] r.op = "add" -> AddBody(S, c)
    [] r.op = "gstop" -> GatheredDone(S, c)

\* A faulty stop that returns at once and leaves the driver as it is: C26 must
\* not survive it.
DriverStopSkip(S, c) == AfterStop(S, c)

\* lines 166-177, up to the first suspension of stop.
DriverStopBegin(S, c) ==
  LET d == S.calls[c].d IN
  IF ~S.running[d]
  THEN AfterStop(S, c)
  ELSE LET S1 == [S EXCEPT !.running[d] = FALSE] IN
       CASE S.task[d] \in TaskLive ->
              SetPc([S1 EXCEPT !.cancelReq[d] = TRUE], c, "stop_wait")
         [] S.task[d] = "failed" -> StopRaised(S1, c)
         [] OTHER -> SetPc(S1, c, "stop_disc")

(***************************************************************************)
(* BaseDriver._poll_loop, lines 228-274, _handle_error, lines 285-301, and *)
(* DriverOrchestrator._handle_value, lines 233-264.                        *)
(***************************************************************************)
SetTask(S, d, t) == [S EXCEPT !.task[d] = t]

\* lines 230-244: the loop test and the code up to the first await.
LoopTop(S, d) ==
  IF ~S.running[d] THEN SetTask(S, d, "done")
  ELSE IF ~S.connected[d] THEN SetTask(S, d, "reconnect")
  ELSE SetTask(S, d, "read")

\* _handle_error: ctx is "in" when called from the handlers of the read
\* (lines 263, 265) and "out" when called from the handler of line 269.
HandleError(S, d, ctx) ==
  LET n == S.error_count[d] + 1
      S1 == [S EXCEPT !.error_count[d] = n]
  IN IF n >= S.retry_count[d]
     THEN LET S2 == Notified([S1 EXCEPT !.connected[d] = FALSE, !.loopOffline[d] = TRUE],
                             d, "OFFLINE")
          IN IF S.statusSub = "none"
             THEN SetTask(S2, d, "sleep")
             ELSE SetTask(S2, d, IF ctx = "in" THEN "offline_in" ELSE "offline_out")
     ELSE SetTask(S1, d, "sleep")

\* line 260: await self._notify_status("ONLINE")
NotifyOnline(S, d) ==
  LET S1 == Notified([S EXCEPT !.evt[d] = NoEvt], d, "ONLINE") IN
  IF S.statusSub = "none" THEN SetTask(S1, d, "sleep") ELSE SetTask(S1, d, "online")

\* _handle_value line 259: the call of value subscriber number i.
Deliver(S, d, i) ==
  LET sid == S.sensor_id[d]
      e == S.evt[d]
      rec == [sub |-> i, sid |-> sid, raw |-> e.raw, proc |-> e.proc,
              late |-> (S.removed[sid] /\ S.drivers[sid] = NoInst), upd |-> e.upd,
              afterRaise |-> e.raised]
  IN SetTask([S EXCEPT !.delivered = rec, !.evt[d].idx = i], d, "value")

\* _handle_value lines 242-257, called from the poll loop at line 253.
HandleValue(S, d, raw) ==
  LET sid == S.sensor_id[d]
      S1 == [S EXCEPT !.evt[d] = [raw |-> raw, proc |-> Processed(S, d, raw),
                                  idx |-> 0, upd |-> S.updF[sid], raised |-> FALSE]]
  IN IF Len(S.valueSubs) = 0 THEN NotifyOnline(S1, d) ELSE Deliver(S1, d, 1)

\* lines 246-258: a read that returned raw.
ReadOk(S, d, raw) ==
  HandleValue([S EXCEPT !.error_count[d] = 0, !.fails[d] = 0,
                        !.loopOffline[d] = FALSE], d, raw)

\* lines 262-265 (timeout, ReadError) and 269-271 (any other exception).
ReadFailed(S, d, how) ==
  HandleError([S EXCEPT !.fails[d] = @ + 1], d,
              IF how = "unexpected" THEN "out" ELSE "in")

(***************************************************************************)
(* VirtualOutputDriver, drivers/virtual_output.py.  None is -1.            *)
(***************************************************************************)
None == -1
VoValues == {0, 4, 7}
NoVoWrite == [invoked |-> FALSE, v |-> None, res |-> "-"]

\* no sensor of protocol VIRTUAL_OUTPUT has been added; _current_value is the
\* initial_value of the config, line 38.
NoVout ==
  [registered |-> FALSE, running |-> FALSE, current_value |-> 0, last_value |-> None,
   last_write_time |-> None, writes |-> 0, last |-> NoVoWrite, read |-> None,
   events |-> {}]

\* self.last_value = value, line 82: last_value is a property without setter
\* (base.py lines 322-325), so the assignment raises AttributeError.
LastValueHasSetter == FALSE

\* VirtualOutputDriver.write, lines 54-84: the fields after the call and what
\* the call ends in.  influx_client has no attribute write (db/influx.py), so
\* line 72 raises AttributeError before anything is awaited, which the
\* handler of line 78 logs.  The value callback _on_value is not called.
VoWrite(V, v) ==
  LET V1 == [V EXCEPT !.current_value = v, !.last_write_time = V.writes + 1,
                      !.writes = @ + 1]
  IN IF LastValueHasSetter
     THEN [vo |-> [V1 EXCEPT !.last_value = v], res |-> "true"]
     ELSE [vo |-> V1, res |-> "raised"]

(***************************************************************************)
(* The formula engine, core/formula.py.  An expression is its syntax tree; *)
(* an identifier is its stem with the number of underscores in front of    *)
(* and behind it (__import__ is import with 2 and 2).  Scalars are         *)
(* integers: the divisions of the expressions below are exact, and pi and  *)
(* e stand for their integer parts.                                        *)
(***************************************************************************)
Node(tag, name, lead, trail, num, args) ==
  [tag |-> tag, name |-> name, lead |-> lead, trail |-> trail, num |-> num,
   args |-> args]
Num(n) == Node("num", "", 0, 0, n, <<>>)
Name(id) == Node("name", id, 0, 0, 0, <<>>)
UName(id, lead, trail) == Node("name", id, lead, trail, 0, <<>>)
Str(word) == Node("str", word, 0, 0, 0, <<>>)
Bin(op, a, b) == Node("bin", op, 0, 0, 0, <<a, b>>)
Call(fn, args) == Node("call", "", 0, 0, 0, <<fn>> \o args)
Attr(obj, id, lead, trail) == Node("attr", id, lead, trail, 0, <<obj>>)
NoneLit == Node("none", "", 0, 0, 0, <<>>)
\* a text that is no expression: what is kept is the words in it
Garbled(words) == Node("syntax", "", 0, 0, 0, words)
Empty == Node("empty", "", 0, 0, 0, <<>>)

\* The expressions of the model, by number.
Exprs ==
  << Name("val"),                                            \* val
     Bin("*", Name("val"), Num(2)),                          \* val * 2
     Bin("/", Name("val"), Num(0)),                          \* val / 0
     Bin("/", Num(8), Name("val")),                          \* 8 / val
     Bin("+", Bin("*", Name("x"), Num(2)), Name("value")),   \* x * 2 + value
     Call(Name("abs"), <<Bin("-", Name("val"), Num(6))>>),   \* abs(val - 6)
     Call(Name("max"), <<Name("val"), Num(3)>>),             \* max(val, 3)
     Call(Name("sqrt"), <<Name("val")>>),                    \* sqrt(val)
     Call(Name("len"), <<Name("val")>>),                     \* len(val)
     Bin("*", Name("pi"), Name("val")),                      \* pi * val
     Bin("+", Name("foo"), Num(1)),                          \* foo + 1
     Call(Name("input"), <<>>),                              \* input()
     NoneLit,                                                \* None
     Empty,                                                  \* (empty)
     Garbled(<<Name("val")>>),                               \* val * * 2
     Garbled(<<Name("import"), Name("os")>>),                \* import os
     Call(Attr(Name("os"), "system", 0, 0), <<Str("ls")>>),  \* os.system('ls')
     Call(Attr(Call(UName("import", 2, 2), <<Str("os")>>), "system", 0, 0),
          <<Str("ls")>>),                          \* __import__('os').system('ls')
     Attr(Name("val"), "class", 2, 2),                       \* val.__class__
     Call(Attr(Call(Name("open"), <<Str("passwd")>>), "read", 0, 0), <<>>),
                                                   \* open('/etc/passwd').read()
     Bin("+", UName("secret", 1, 0), Num(1)),                \* _secret + 1
     Bin("+", UName("x", 2, 0), Num(1)) >>                   \* __x + 1
ExprIds == 1..Len(Exprs)
Vals == {0, 4, -4}

\* ALLOWED_BUILTINS, lines 12-46, and the local variables of lines 141-146.
SafeFunctions ==
  {"abs", "round", "min", "max", "pow", "sum", "len", "sqrt", "log", "log10",
   "log2", "exp", "sin", "cos", "tan", "asin", "acos", "atan", "atan2",
   "degrees", "radians", "floor", "ceil", "fabs", "int", "float", "bool"}
MathConstants == {"pi", "e"}
InputNames == {"val", "value", "x"}

\* FORBIDDEN_PATTERNS, lines 49-66: the whole words, and the dunder pattern.
ForbiddenWords ==
  {"import", "exec", "eval", "open", "file", "os", "sys", "subprocess", "socket",
   "globals", "locals", "getattr", "setattr", "delattr", "compile"}

\* the words of the text of an expression, string literals included
RECURSIVE Words(_)
Words(x) ==
  (IF x.tag \in {"name", "attr", "str"}
   THEN {[name |-> x.name, lead |-> x.lead, trail |-> x.trail]} ELSE {})
  \cup UNION {Words(x.args[i]) : i \in 1..Len(x.args)}

\* re.search(pattern, formula) for some pattern, lines 87-89: \bword\b needs
\* the whole word, \b__\w+__\b a word with two underscores at either end.
MatchesForbidden(x) ==
  \E w \in Words(x) :
    \/ w.lead = 0 /\ w.trail = 0 /\ w.name \in ForbiddenWords
    \/ w.lead >= 2 /\ w.trail >= 2

\* the identifiers of an expression (names and attributes, not strings)
RECURSIVE Identifiers(_)
Identifiers(x) ==
  (IF x.tag \in {"name", "attr"}
   THEN {[name |-> x.name, lead |-> x.lead, trail |-> x.trail]} ELSE {})
  \cup UNION {Identifiers(x.args[i]) : i \in 1..Len(x.args)}

\* compile_restricted_exec("_result_ = " + formula).errors is not empty, lines
\* 93-97: the text is no expression, or an identifier starts with "_", which
\* the library does not admit.  strict: the library applies that rule to the
\* target _result_ of the engine's own assignment as well.
CompileErrors(x, strict) ==
  \/ x.tag = "syntax"
  \/ \E w \in Identifiers(x) : w.lead > 0
  \/ strict

\* validate_formula, lines 75-103: "ok" or the reason of the rejection.
validate_formula(x, strict) ==
  IF x.tag = "empty" THEN "empty"
  ELSE IF MatchesForbidden(x) THEN "forbidden"
  ELSE IF CompileErrors(x, strict) THEN "compile"
  ELSE "ok"

Ok(v) == [k |-> "ok", v |-> v]
Fails(k) == [k |-> k, v |-> 0]
\* a / b of Python for b # 0, where b divides a
Quotient(a, b) ==
  LET q == (IF a < 0 THEN -a ELSE a) \div (IF b < 0 THEN -b ELSE b)
  IN IF (a < 0) = (b < 0) THEN q ELSE -q
\* math.sqrt of a square
Sqrt(n) == CHOOSE r \in 0..n : r * r = n

\* a safe function applied to scalars
ApplyFn(fn, a) ==
  CASE fn = "abs" /\ Len(a) = 1 -> Ok(IF a[1] < 0 THEN -a[1] ELSE a[1])
    [] fn = "max" /\ Len(a) = 2 -> Ok(IF a[1] >= a[2] THEN a[1] ELSE a[2])
    [] fn = "min" /\ Len(a) = 2 -> Ok(IF a[1] <= a[2] THEN a[1] ELSE a[2])
    [] fn = "sqrt" /\ Len(a) = 1 -> IF a[1] < 0 THEN Fails("ValueError")
                                    ELSE Ok(Sqrt(a[1]))
    [] OTHER -> Fails("TypeError")

\* exec(result.code, restricted_globals, local_vars), line 167: the value
\* bound to _result_, or the exception raised.
RECURSIVE Exec(_, _)
Exec(x, val) ==
  CASE x.tag = "num" -> Ok(x.num)
    [] x.tag = "none" -> Fails("None")
    [] x.tag = "name" ->
         IF x.name \in InputNames THEN Ok(val)
         ELSE IF x.name \in MathConstants THEN Ok(IF x.name = "pi" THEN 3 ELSE 2)
         ELSE IF x.name \in SafeFunctions THEN Fails("TypeError")
         ELSE Fails("NameError")
    [] x.tag = "bin" ->
         LET a == Exec(x.args[1], val)
             b == Exec(x.args[2], val)
         IN IF a.k # "ok" THEN a
            ELSE IF b.k # "ok" THEN b
            ELSE IF x.name = "+" THEN Ok(a.v + b.v)
            ELSE IF x.name = "-" THEN Ok(a.v - b.v)
            ELSE IF x.name = "*" THEN Ok(a.v * b.v)
            ELSE IF b.v = 0 THEN Fails("ZeroDivisionError")
            ELSE Ok(Quotient(a.v, b.v))
    [] x.tag = "call" ->
         LET fn == x.args[1]
             n == Len(x.args) - 1
             r == [i \in 1..n |-> Exec(x.args[i + 1], val)]
             bad == {i \in 1..n : r[i].k # "ok"}
         IN IF fn.tag # "name" \/ fn.name \notin SafeFunctions
            THEN Fails("NameError")
            ELSE IF bad # {}
            THEN r[CHOOSE i \in bad : \A j \in bad : i <= j]
            ELSE IF fn.name = "len" THEN Fails("TypeError")
            ELSE ApplyFn(fn.name, [i \in 1..n |-> r[i].v])
    [] OTHER -> Fails("NameError")

\* evaluate_formula, lines 106-183: the scalar, or the FormulaError raised,
\* and whether the expression was executed.
evaluate(x, val, strict) ==
  IF validate_formula(x, strict) # "ok"
  THEN [res |-> Fails("invalid-formula"), executed |-> FALSE]
  ELSE LET r == Exec(x, val) IN
       [res |-> CASE r.k = "ok" -> r
                  [] r.k = "None" -> Fails("no-result")
                  [] r.k \in {"TypeError", "ValueError"} -> Fails("type-error")
                  [] r.k = "ZeroDivisionError" -> Fails("division-by-zero")
                  [] OTHER -> Fails("runtime-error"),
        executed |-> TRUE]

NoFx == [op |-> "-", expr |-> 1, val |-> 0, lib |-> "-", valid |-> FALSE,
         res |-> Fails("-"), executed |-> FALSE]

(***************************************************************************)
(* Initial state: DriverOrchestrator.__init__, lines 42-52.                *)
(***************************************************************************)
InitOrch ==
  /\ drivers = [s \in SensorIds |-> NoInst]
  /\ formulas = [s \in SensorIds |-> NoFormula]
  /\ valueSubs = <<>>
  /\ statusSub = "none"
  /\ nextInst = 0
  /\ sensor_id = [d \in Insts |-> 0]
  /\ retry_count = [d \in Insts |-> 0]
  /\ running = [d \in Insts |-> FALSE]
  /\ connected = [d \in Insts |-> FALSE]
  /\ error_count = [d \in Insts |-> 0]
  /\ task = [d \in Insts |-> "none"]
  /\ cancelReq = [d \in Insts |-> FALSE]
  /\ evt = [d \in Insts |-> NoEvt]
  /\ calls = <<>>
  /\ delivered = NoDelivery
  /\ lastReturn = NoReturn
  /\ lastStatus = [d \in Insts |-> "-"]
  /\ fails = [d \in Insts |-> 0]
  /\ loopOffline = [d \in Insts |-> FALSE]
  /\ removed = [s \in SensorIds |-> FALSE]
  /\ updF = [s \in SensorIds |-> NoFormula]
  /\ statusRegs = 0
  /\ statusEvt = [regs |-> 0, to |-> {}]
  /\ stopReturned = FALSE
  /\ connFails = [d \in Insts |-> 0]
  /\ vout = NoVout
  /\ fx = NoFx

(***************************************************************************)
(* BufferQueue, services/buffer.py, and the sink client, db/influx.py.     *)
(* A row of the sensor_readings table is a record; synced_at = -1 is NULL. *)
(* Each sensor hands its readings to add one after the other (a driver     *)
(* serialises its own reads), each with the clock's time as timestamp (the *)
(* clock advances as readings arrive);                                     *)
(* adds of different sensors, the background flush loop and the manual     *)
(* flush (api/routes/config.py line 297) interleave at every await.        *)
(***************************************************************************)
BufferSensorIds == {1, 2}
Flushers == {"loop", "manual"}
Horizons == {0, 2}
NoAdd == [pc |-> "idle", id |-> 0, timestamp |-> 0]
NoFlush == [pc |-> "idle", batch |-> <<>>]
NoQuiet == [on |-> FALSE, rows |-> 0, log |-> 0]
orchAll == <<orchVars, drvVars, calls, histVars>>

InitBuf ==
  /\ rows = {}
  /\ cloud_available = TRUE
  /\ sinkConnected = FALSE
  /\ sinkLog = <<>>
  /\ accepted = {}
  /\ nextReading = 0
  /\ now = 0
  /\ addCall = [s \in BufferSensorIds |-> NoAdd]
  /\ flushCall = [f \in Flushers |-> NoFlush]
  /\ dbFails = 0
  /\ flushOverlap = FALSE
  /\ quiet = NoQuiet

\* .order_by(SensorReading.timestamp): the ids of the rows R, oldest first.
RECURSIVE order_by_timestamp(_)
order_by_timestamp(R) ==
  IF R = {} THEN <<>>
  ELSE LET m == CHOOSE x \in R : \A y \in R : x.timestamp <= y.timestamp
       IN <<m.id>> \o order_by_timestamp(R \ {m})

\* .limit(n)
Limit(q, n) == SubSeq(q, 1, IF Len(q) < n THEN Len(q) ELSE n)

\* A faulty select, newest first: C5 must not survive it.
SelectNewestFirst(R) ==
  LET q == order_by_timestamp({r \in R : ~r.synced})
  IN Limit([i \in 1..Len(q) |-> q[Len(q) + 1 - i]], batch_size)

\* The select of flush: the oldest batch_size unsynced rows.
SelectUnsynced(R) == Limit(order_by_timestamp({r \in R : ~r.synced}), batch_size)

\* A faulty delete that forgets the synced filter: C4 must not survive it.
DeletableAny(r, cutoff) == r.synced_at < cutoff

\* The where clauses of cleanup_synced's delete.
Deletable(r, cutoff) == r.synced /\ r.synced_at < cutoff

InSeq(q) == {q[i] : i \in 1..Len(q)}

\* influx_client.connect / disconnect
influx_connect(ready) ==
  /\ sinkConnected' = (sinkConnected \/ ready)
  /\ UNCHANGED <<rows, cloud_available, sinkLog, accepted, nextReading, now,
                 addCall, flushCall, dbFails, flushOverlap, quiet, orchAll, autoVars>>

influx_disconnect ==
  /\ sinkConnected' = FALSE
  /\ UNCHANGED <<rows, cloud_available, sinkLog, accepted, nextReading, now,
                 addCall, flushCall, dbFails, flushOverlap, quiet, orchAll, autoVars>>

\* add, up to its first await: the direct write if the cloud is available,
\* the commit of the row otherwise.
add(s) ==
  /\ addCall[s].pc = "idle"
  /\ nextReading < MaxReadings
  /\ nextReading' = nextReading + 1
  /\ now' = now + 1
  /\ addCall' = [addCall EXCEPT ![s] =
       [pc |-> IF cloud_available /\ sinkConnected THEN "direct" ELSE "persist",
        id |-> nextReading + 1, timestamp |-> now + 1]]
  /\ UNCHANGED <<rows, cloud_available, sinkConnected, sinkLog, accepted,
                 flushCall, dbFails, flushOverlap, quiet, orchAll, autoVars>>

\* A faulty add that stays in cloud mode after a failed direct write: C32 must
\* not survive it.
write_sensor_value_keep(s, ok) ==
  /\ addCall[s].pc = "direct"
  /\ IF ok /\ sinkConnected
     THEN /\ sinkLog' = Append(sinkLog, addCall[s].id)
          /\ accepted' = accepted \cup {addCall[s].id}
          /\ addCall' = [addCall EXCEPT ![s] = NoAdd]
     ELSE /\ addCall' = [addCall EXCEPT ![s].pc = "persist"]
          /\ UNCHANGED <<sinkLog, accepted>>
  /\ UNCHANGED <<rows, cloud_available, sinkConnected, nextReading, now, flushCall,
                 dbFails, flushOverlap, quiet, orchAll, autoVars>>

\* write_sensor_value returns to add: True ends the add, False switches to
\* buffer mode and goes on to store the row.
write_sensor_value_done(s, ok) ==
  /\ addCall[s].pc = "direct"
  /\ IF ok /\ sinkConnected
     THEN /\ sinkLog' = Append(sinkLog, addCall[s].id)
          /\ accepted' = accepted \cup {addCall[s].id}
          /\ addCall' = [addCall EXCEPT ![s] = NoAdd]
          /\ UNCHANGED cloud_available
     ELSE /\ cloud_available' = FALSE
          /\ addCall' = [addCall EXCEPT ![s].pc = "persist"]
          /\ UNCHANGED <<sinkLog, accepted>>
  /\ UNCHANGED <<rows, sinkConnected, nextReading, now, flushCall, dbFails, flushOverlap, quiet, orchAll, autoVars>>

\* session.commit() of add returns or raises.
commit_reading_done(s, ok) ==
  /\ addCall[s].pc = "persist"
  /\ ~ok => dbFails < MaxDbFail
  /\ IF ok
     THEN /\ rows' = rows \cup {[id |-> addCall[s].id, sensor_id |-> s,
                                 timestamp |-> addCall[s].timestamp,
                                 synced |-> FALSE, synced_at |-> -1]}
          /\ accepted' = accepted \cup {addCall[s].id}
          /\ UNCHANGED dbFails
     ELSE /\ dbFails' = dbFails + 1
          /\ UNCHANGED <<rows, accepted>>
  /\ addCall' = [addCall EXCEPT ![s] = NoAdd]
  /\ UNCHANGED <<cloud_available, sinkConnected, sinkLog, nextReading, now,
                 flushCall, flushOverlap, quiet, orchAll, autoVars>>

\* flush, up to the await of write_batch; ok: the select does not raise.
flush(f, ok) ==
  /\ flushCall[f].pc = "idle"
  /\ ~ok => (sinkConnected /\ dbFails < MaxDbFail)
  /\ IF ~sinkConnected
     THEN UNCHANGED <<cloud_available, flushCall, dbFails>>
     ELSE IF ~ok
     THEN /\ cloud_available' = FALSE
          /\ dbFails' = dbFails + 1
          /\ UNCHANGED flushCall
     ELSE LET readings == SelectUnsynced(rows) IN
          IF readings = <<>>
          THEN /\ cloud_available' = TRUE
               /\ UNCHANGED <<flushCall, dbFails>>
          ELSE /\ flushCall' = [flushCall EXCEPT ![f] = [pc |-> "write", batch |-> readings]]
               /\ UNCHANGED <<cloud_available, dbFails>>
  /\ flushOverlap' = (flushOverlap \/ (sinkConnected /\ \E g \in Flushers : flushCall[g].pc # "idle"))
  /\ UNCHANGED <<rows, sinkConnected, sinkLog, accepted, nextReading, now,
                 addCall, quiet, orchAll, autoVars>>

\* A faulty flush that marks its batch synced although nothing was written:
\* C33 must not survive it.
write_batch_done_blind(f, ok) ==
  /\ flushCall[f].pc = "write"
  /\ LET written == IF ok /\ sinkConnected THEN Len(flushCall[f].batch) ELSE 0 IN
     IF written > 0
     THEN /\ sinkLog' = sinkLog \o flushCall[f].batch
          /\ flushCall' = [flushCall EXCEPT ![f].pc = "mark"]
          /\ UNCHANGED <<cloud_available, rows>>
     ELSE /\ cloud_available' = FALSE
          /\ flushCall' = [flushCall EXCEPT ![f] = NoFlush]
          /\ rows' = {IF r.id \in InSeq(flushCall[f].batch)
                      THEN [r EXCEPT !.synced = TRUE, !.synced_at = now]
                      ELSE r : r \in rows}
          /\ UNCHANGED sinkLog
  /\ UNCHANGED <<sinkConnected, accepted, nextReading, now, addCall,
                 dbFails, flushOverlap, quiet, orchAll, autoVars>>

\* write_batch returns to flush: len(points), or 0 when it is not connected
\* or the write raises.
write_batch_done(f, ok) ==
  /\ flushCall[f].pc = "write"
  /\ LET written == IF ok /\ sinkConnected THEN Len(flushCall[f].batch) ELSE 0 IN
     IF written > 0
     THEN /\ sinkLog' = sinkLog \o flushCall[f].batch
          /\ flushCall' = [flushCall EXCEPT ![f].pc = "mark"]
          /\ UNCHANGED cloud_available
     ELSE /\ cloud_available' = FALSE
          /\ flushCall' = [flushCall EXCEPT ![f] = NoFlush]
          /\ UNCHANGED sinkLog
  /\ UNCHANGED <<rows, sinkConnected, accepted, nextReading, now, addCall,
                 dbFails, flushOverlap, quiet, orchAll, autoVars>>

\* A faulty end of flush that commits without the update: C17 must not
\* survive it.
mark_synced_lost(f, ok) ==
  /\ flushCall[f].pc = "mark"
  /\ ~ok => dbFails < MaxDbFail
  /\ cloud_available' = ok
  /\ dbFails' = IF ok THEN dbFails ELSE dbFails + 1
  /\ flushCall' = [flushCall EXCEPT ![f] = NoFlush]
  /\ UNCHANGED <<rows, sinkConnected, sinkLog, accepted, nextReading, now, addCall,
                 flushOverlap, quiet, orchAll, autoVars>>

\* The update and commit of flush return or raise.
mark_synced_done(f, ok) ==
  /\ flushCall[f].pc = "mark"
  /\ ~ok => dbFails < MaxDbFail
  /\ IF ok
     THEN /\ rows' = {IF r.id \in InSeq(flushCall[f].batch)
                      THEN [r EXCEPT !.synced = TRUE, !.synced_at = now]
                      ELSE r : r \in rows}
          /\ cloud_available' = TRUE
          /\ UNCHANGED dbFails
     ELSE /\ cloud_available' = FALSE
          /\ dbFails' = dbFails + 1
          /\ UNCHANGED rows
  /\ flushCall' = [flushCall EXCEPT ![f] = NoFlush]
  /\ UNCHANGED <<sinkConnected, sinkLog, accepted, nextReading, now, addCall, flushOverlap, quiet, orchAll, autoVars>>

\* cleanup_synced: the cutoff is the current time, whatever the argument.
cleanup_synced(older_than_hours) ==
  /\ LET cutoff == now IN rows' = {r \in rows : ~Deletable(r, cutoff)}
  /\ UNCHANGED <<cloud_available, sinkConnected, sinkLog, accepted, nextReading,
                 now, addCall, flushCall, dbFails, flushOverlap, quiet, orchAll, autoVars>>

NextBuf ==
  \/ \E ready \in BOOLEAN : influx_connect(ready)
  \/ influx_disconnect
  \/ \E s \in BufferSensorIds : add(s)
  \/ \E s \in BufferSensorIds, ok \in BOOLEAN : write_sensor_value_done(s, ok)
  \/ \E s \in BufferSensorIds, ok \in BOOLEAN : commit_reading_done(s, ok)
  \/ \E f \in Flushers, ok \in BOOLEAN : flush(f, ok)
  \/ \E f \in Flushers, ok \in BOOLEAN : write_batch_done(f, ok)
  \/ \E f \in Flushers, ok \in BOOLEAN : mark_synced_done(f, ok)
  \/ \E h \in Horizons : cleanup_synced(h)

(***************************************************************************)
(* AutomationEngine, services/automation.py.  A rule's condition compares  *)
(* the cached value of one sensor with 50 ("temp > 50"); the engine is a   *)
(* value subscriber, so each sensor's driver has at most one event in      *)
(* _handle_update at a time, and the events of different sensors           *)
(* interleave at the await of write_sensor.  write_sensor returns False    *)
(* or raises at once, or suspends in the target driver's write.            *)
(***************************************************************************)
AutoSensors == {1, 2}
Values == {40, 60}
Cooldowns == {2}
TargetFormulas == {"none", "bad"}
WriteNow == {"suspend", "false", "raise"}
WriteLater == {"true", "false", "raise"}
RuleIdx == 1..MaxRules
StartClock == CHOOSE c \in Cooldowns : \A d \in Cooldowns : d <= c
NoEval == [pc |-> "idle", now |-> 0, rule |-> 0]

Auto == [rules |-> rules, sensor_values |-> sensor_values, evalCall |-> evalCall,
         lastWrite |-> lastWrite, lastGap |-> lastGap, writeRaised |-> writeRaised]

ApplyAuto(A) ==
  /\ rules' = A.rules /\ sensor_values' = A.sensor_values /\ evalCall' = A.evalCall
  /\ lastWrite' = A.lastWrite /\ lastGap' = A.lastGap /\ writeRaised' = A.writeRaised

InitAuto ==
  /\ auto_running = FALSE
  /\ rules = <<>>
  /\ sensor_values = [s \in {} |-> 0]
  /\ clock = StartClock
  /\ evalCall = [s \in AutoSensors |-> NoEval]
  /\ lastWrite = [i \in RuleIdx |-> -1]
  /\ lastGap = [i \in RuleIdx |-> -1]
  /\ writeRaised = FALSE

\* A faulty evaluation that takes a condition over an unset name for met:
\* C38 must not survive it.
eval_condition_met(rule, values) ==
  IF rule.sensor \notin DOMAIN values THEN <<FALSE, TRUE>>
  ELSE <<FALSE, values[rule.sensor] > 50>>

\* eval(rule.condition, ...): <<raised, is_met>>; an unset name raises.
eval_condition(rule, values) ==
  IF rule.sensor \notin DOMAIN values THEN <<TRUE, FALSE>>
  ELSE <<FALSE, values[rule.sensor] > 50>>

\* The cooldown test of _evaluate_rules, line 96.
InCooldown(rule, t) == t - rule.last_triggered < rule.cooldown_s

\* A faulty write whose value comes back as an event and fires the rule a
\* second time inside the same handling: C39 must not survive it.
InvokeWriteTwice(A, i, t) ==
  [A EXCEPT !.lastGap[i] = 0, !.lastWrite[i] = t]

\* write_sensor is invoked for rule i at the clock's time t.
InvokeWrite(A, i, t) ==
  [A EXCEPT !.lastGap[i] = IF A.lastWrite[i] = -1 THEN -1 ELSE t - A.lastWrite[i],
            !.lastWrite[i] = t]

\* The loop of _evaluate_rules from rule i on, for the event of sensor e,
\* until a write suspends or the rules are exhausted; imm[i] is what the
\* write of rule i does when it is invoked.
RECURSIVE evaluate_rules(_, _, _, _, _)
evaluate_rules(A, e, i, t, imm) ==
  IF i > Len(A.rules) THEN [A EXCEPT !.evalCall[e] = NoEval]
  ELSE LET rule == A.rules[i]
           c == eval_condition(rule, A.sensor_values)
       IN IF InCooldown(rule, A.evalCall[e].now) THEN evaluate_rules(A, e, i + 1, t, imm)
          ELSE IF c[1] \/ ~c[2] THEN evaluate_rules(A, e, i + 1, t, imm)
          ELSE IF rule.target_formula = "bad" THEN [A EXCEPT !.evalCall[e] = NoEval]
          ELSE LET W == InvokeWrite(A, i, t) IN
               CASE imm[i] = "suspend" ->
                      [W EXCEPT !.evalCall[e].pc = "write", !.evalCall[e].rule = i]
                 [] imm[i] = "false" ->
                      evaluate_rules([W EXCEPT !.rules[i].last_triggered = A.evalCall[e].now],
                                     e, i + 1, t, imm)
                 [] OTHER ->
                      evaluate_rules([W EXCEPT !.writeRaised = TRUE], e, i + 1, t, imm)

automation_start ==
  /\ ~auto_running
  /\ auto_running' = TRUE
  /\ UNCHANGED <<rules, sensor_values, clock, evalCall, lastWrite, lastGap,
                 writeRaised, orchAll, bufVars>>

automation_stop ==
  /\ auto_running
  /\ auto_running' = FALSE
  /\ UNCHANGED <<rules, sensor_values, clock, evalCall, lastWrite, lastGap,
                 writeRaised, orchAll, bufVars>>

\* add_rule with a new rule id, while no evaluation is iterating the rules.
add_rule(cooldown_s, sensor, target_formula) ==
  /\ Len(rules) < MaxRules
  /\ \A s \in AutoSensors : evalCall[s].pc = "idle"
  /\ rules' = Append(rules, [cooldown_s |-> cooldown_s, sensor |-> sensor,
                             target_formula |-> target_formula, last_triggered |-> 0])
  /\ UNCHANGED <<auto_running, sensor_values, clock, evalCall, lastWrite, lastGap,
                 writeRaised, orchAll, bufVars>>

AutoTick ==
  /\ clock < StartClock + MaxTicks
  /\ clock' = clock + 1
  /\ UNCHANGED <<auto_running, rules, sensor_values, evalCall, lastWrite, lastGap,
                 writeRaised, orchAll, bufVars>>

\* _handle_update for a value event of the registered sensor e, and
\* _evaluate_rules up to its first suspension.
handle_update(e, value, imm) ==
  /\ evalCall[e].pc = "idle"
  /\ IF ~auto_running
     THEN UNCHANGED <<rules, sensor_values, evalCall, lastWrite, lastGap, writeRaised>>
     ELSE ApplyAuto(evaluate_rules(
            [Auto EXCEPT !.sensor_values = (e :> value) @@ sensor_values,
                         !.evalCall[e].now = clock],
            e, 1, clock, imm))
  /\ UNCHANGED <<auto_running, clock, orchAll, bufVars>>

\* The suspended write_sensor returns or raises; the loop goes on.
write_sensor_done(e, outcome, imm) ==
  /\ evalCall[e].pc = "write"
  /\ LET i == evalCall[e].rule
         A == IF outcome = "raise"
              THEN [Auto EXCEPT !.writeRaised = TRUE]
              ELSE [Auto EXCEPT !.rules[i].last_triggered = evalCall[e].now]
     IN ApplyAuto(evaluate_rules(A, e, i + 1, clock, imm))
  /\ UNCHANGED <<auto_running, clock, orchAll, bufVars>>

NextAuto ==
  \/ automation_start
  \/ automation_stop
  \/ \E c \in Cooldowns, s \in AutoSensors, tf \in TargetFormulas : add_rule(c, s, tf)
  \/ AutoTick
  \/ \E e \in AutoSensors, v \in Values, imm \in [1..Len(rules) -> WriteNow] :
       handle_update(e, v, imm)
  \/ \E e \in AutoSensors, o \in WriteLater, imm \in [1..Len(rules) -> WriteNow] :
       write_sensor_done(e, o, imm)

Init == InitOrch /\ InitBuf /\ InitAuto

SpecBuf == Init /\ [][NextBuf]_vars

(***************************************************************************)
(* SpecDrain: the buffer with its background loop (_flush_loop, lines      *)
(* 238-246) as the only flusher.  Readings arrive while the sink comes and *)
(* goes; at some moment between two iterations of the loop the quiet       *)
(* period begins: from then on the sink stays connected and accepts every  *)
(* batch, the local database answers, and no reading is added.  The loop   *)
(* is a task that runs for as long as the buffer is started, so its steps  *)
(* are taken whenever they stay possible.                                  *)
(***************************************************************************)
AllSynced == \A r \in rows : r.synced

BeginQuiet ==
  /\ ~quiet.on
  /\ sinkConnected
  /\ \A s \in BufferSensorIds : addCall[s].pc = "idle"
  /\ flushCall["loop"].pc = "idle"
  /\ quiet' = [on |-> TRUE, rows |-> Cardinality({r \in rows : ~r.synced}),
               log |-> Len(sinkLog)]
  /\ UNCHANGED <<rows, cloud_available, sinkConnected, sinkLog, accepted, nextReading,
                 now, addCall, flushCall, dbFails, flushOverlap, orchAll, autoVars>>

\* one iteration of _flush_loop, in the three segments of flush.
FlushLoopStep ==
  \E ok \in BOOLEAN :
    /\ quiet.on => ok
    /\ \/ flush("loop", ok)
       \/ write_batch_done("loop", ok)
       \/ mark_synced_done("loop", ok)

NextDrain ==
  \/ ~quiet.on /\ \E ready \in BOOLEAN : influx_connect(ready)
  \/ ~quiet.on /\ influx_disconnect
  \/ ~quiet.on /\ \E s \in BufferSensorIds : add(s)
  \/ \E s \in BufferSensorIds, ok \in BOOLEAN : write_sensor_value_done(s, ok)
  \/ \E s \in BufferSensorIds, ok \in BOOLEAN : commit_reading_done(s, ok)
  \/ BeginQuiet
  \/ FlushLoopStep

SpecDrain == Init /\ [][NextDrain]_vars /\ WF_vars(FlushLoopStep)

SpecAuto == Init /\ [][NextAuto]_vars

(***************************************************************************)
(* Subscriber registration, orchestrator.py lines 215-227.  The program    *)
(* registers its subscribers at startup, before the first sensor is added  *)
(* (main.py lines 90-118).                                                 *)
(***************************************************************************)
on_processed_value ==
  /\ Len(calls) = 0
  /\ Len(valueSubs) < MaxSubs
  /\ Apply([St EXCEPT !.valueSubs = Append(@, Len(@) + 1)])

on_sensor_status(kind) ==
  /\ Len(calls) = 0
  /\ statusRegs < MaxSubs
  /\ Apply([St EXCEPT !.statusSub = kind, !.statusRegs = @ + 1])

(***************************************************************************)
(* Orchestrator operations, orchestrator.py lines 73-172: the segment from *)
(* the call to its first suspension.                                       *)
(***************************************************************************)
add_sensor(sid, f, rc, kind) ==
  /\ Len(calls) < MaxCalls
  /\ kind = "ok" => nextInst < MaxInst
  /\ LET c == Len(calls) + 1
         old == drivers[sid]
         r == [NewCall("add", sid) EXCEPT !.formula = f, !.retry = rc,
                 !.kind = kind, !.d = old,
                 !.oldF = IF kind = "unknown" THEN formulas[sid] ELSE NoFormula,
                 !.nd = IF kind = "ok" THEN nextInst + 1 ELSE NoInst]
         S0 == [St EXCEPT !.calls = Append(@, r), !.removed[sid] = FALSE,
                          !.nextInst = IF kind = "ok" THEN @ + 1 ELSE @]
     IN IF old # NoInst
        THEN Apply(DriverStopBegin(
                     [S0 EXCEPT !.drivers[sid] = NoInst,
                                !.formulas[sid] = NoFormula,
                                !.updF[sid] = NoFormula], c))
        ELSE Apply(AddBody(S0, c))

\* A faulty remove_sensor that looks the driver up and leaves the registry as
\* it is while the driver stops: C12 must not survive it.
remove_sensor_keep(sid) ==
  /\ Len(calls) < MaxCalls
  /\ LET c == Len(calls) + 1
         old == drivers[sid]
         S0 == [St EXCEPT !.calls = Append(@, [NewCall("remove", sid) EXCEPT !.d = old])]
     IN IF old # NoInst
        THEN Apply(DriverStopBegin(S0, c))
        ELSE Apply(Return(S0, c, "false"))

remove_sensor(sid) ==
  /\ Len(calls) < MaxCalls
  /\ LET c == Len(calls) + 1
         old == drivers[sid]
         S0 == [St EXCEPT !.calls = Append(@, [NewCall("remove", sid) EXCEPT !.d = old]),
                          !.drivers[sid] = NoInst, !.formulas[sid] = NoFormula,
                          !.updF[sid] = NoFormula]
     IN IF old # NoInst
        THEN Apply(DriverStopBegin(S0, c))
        ELSE Apply(Return(S0, c, "false"))

\* A faulty update_formula that answers True and stores nothing: C6 must not
\* survive it.
update_formula_lost(sid, f) ==
  /\ Len(calls) < MaxCalls
  /\ LET c == Len(calls) + 1
         S0 == [St EXCEPT !.calls = Append(@, [NewCall("update", sid) EXCEPT !.formula = f])]
     IN IF drivers[sid] = NoInst
        THEN Apply(Return(S0, c, "false"))
        ELSE Apply(Return([S0 EXCEPT !.updF[sid] = f], c, "true"))

update_formula(sid, f) ==
  /\ Len(calls) < MaxCalls
  /\ LET c == Len(calls) + 1
         S0 == [St EXCEPT !.calls = Append(@, [NewCall("update", sid) EXCEPT !.formula = f])]
     IN IF drivers[sid] = NoInst
        THEN Apply(Return(S0, c, "false"))
        ELSE Apply(Return([S0 EXCEPT !.formulas[sid] = f, !.updF[sid] = f], c, "true"))

restart_sensor(sid) ==
  /\ Len(calls) < MaxCalls
  /\ LET c == Len(calls) + 1
         old == drivers[sid]
         S0 == [St EXCEPT !.calls = Append(@, [NewCall("restart", sid) EXCEPT !.d = old])]
     IN IF old # NoInst
        THEN Apply(DriverStopBegin(S0, c))
        ELSE Apply(Return(S0, c, "false"))

\* DriverOrchestrator.stop, lines 59-67: the coroutines driver.stop() of the
\* drivers registered now are handed to asyncio.gather, which runs each as a
\* task of its own; stop waits for all of them.
orchestrator_stop ==
  /\ LET reg == {s \in SensorIds : drivers[s] # NoInst} IN
     /\ Len(calls) + 1 + Cardinality(reg) <= MaxFrames
     /\ LET c == Len(calls) + 1
            Kid(s) == [NewCall("gstop", s) EXCEPT !.d = drivers[s], !.parent = c]
            kids == IF reg = {} THEN <<>>
                    ELSE IF reg = SensorIds THEN <<Kid(1), Kid(2)>>
                    ELSE <<Kid(CHOOSE s \in reg : TRUE)>>
            S0 == [St EXCEPT !.calls = Append(@, [NewCall("stop", 0) EXCEPT !.pc = "gather"])
                                         \o kids]
        IN IF reg = {} THEN Apply(StopAllEnd(S0, c)) ELSE Apply(S0)

\* the task that gather made of one driver.stop() runs its first segment.
GatheredStopBegin(c) ==
  /\ calls[c].op = "gstop" /\ calls[c].pc = "new"
  /\ Apply(DriverStopBegin(St, c))

\* add_sensor of the VIRTUAL_OUTPUT sensor: connect returns True (line 44) and
\* start creates the task of the overridden _poll_loop.
vo_add_sensor ==
  /\ ~vout.registered
  /\ Apply([St EXCEPT !.vout = [@ EXCEPT !.registered = TRUE, !.running = TRUE]])

vo_remove_sensor ==
  /\ vout.registered
  /\ Apply([St EXCEPT !.vout = [@ EXCEPT !.registered = FALSE, !.running = FALSE]])

\* restart_sensor of it: stopped, and started again after the pause.
vo_restart_stopped ==
  /\ vout.registered /\ vout.running
  /\ Apply([St EXCEPT !.vout.running = FALSE])

vo_restart_started ==
  /\ vout.registered /\ ~vout.running
  /\ Apply([St EXCEPT !.vout.running = TRUE])

\* write_sensor(id, v) for it, orchestrator.py lines 174-189; the driver's
\* write suspends nowhere, so the call is one step.
vo_write_sensor(v) ==
  /\ vout.writes < MaxVoWrites
  /\ IF ~vout.registered \/ ~vout.running
     THEN Apply([St EXCEPT !.vout.last = [invoked |-> FALSE, v |-> v, res |-> "false"]])
     ELSE LET w == VoWrite(vout, v) IN
          Apply([St EXCEPT !.vout = [w.vo EXCEPT !.last = [invoked |-> TRUE, v |-> v,
                                                            res |-> w.res]]])

\* read(), lines 50-52.
vo_read ==
  /\ vout.registered
  /\ Apply([St EXCEPT !.vout.read = vout.current_value])

\* one round of the overridden _poll_loop, lines 86-95: it sleeps, and
\* neither reads nor calls the value callback.
vo_poll_loop ==
  /\ vout.running
  /\ Apply(St)

\* A faulty write_sensor without the test of is_running: C13 must not survive
\* it.
write_sensor_unchecked(sid) ==
  /\ Len(calls) < MaxCalls
  /\ LET c == Len(calls) + 1
         d == drivers[sid]
         r == [NewCall("write", sid) EXCEPT
                 !.d = d,
                 !.wasRunning = (d # NoInst /\ running[d])]
         S0 == [St EXCEPT !.calls = Append(@, r)]
     IN IF d = NoInst THEN Apply(Return(S0, c, "false"))
        ELSE Apply(SetPc([S0 EXCEPT !.calls[c].writes = 1], c, "write"))

\* write_sensor, lines 174-186, up to the await of the driver's write.  The
\* frame remembers the driver found, whether it was running, and the drivers
\* that a remove_sensor of the same id was stopping at that moment.
write_sensor(sid) ==
  /\ Len(calls) < MaxCalls
  /\ LET c == Len(calls) + 1
         d == drivers[sid]
         r == [NewCall("write", sid) EXCEPT
                 !.d = d,
                 !.wasRunning = (d # NoInst /\ running[d]),
                 !.removing = {calls[k].d : k \in {j \in 1..Len(calls) :
                                   calls[j].op = "remove" /\ calls[j].sid = sid}}]
         S0 == [St EXCEPT !.calls = Append(@, r)]
     IN IF d = NoInst THEN Apply(Return(S0, c, "false"))
        ELSE IF ~running[d] THEN Apply(Return(S0, c, "false"))
        ELSE Apply(SetPc([S0 EXCEPT !.calls[c].writes = 1], c, "write"))

\* lines 186-189: the driver's write returned True or False, or raised, which
\* is logged and raised again.
WriteDone(c, o) ==
  /\ calls[c].pc = "write"
  /\ Apply(Return([St EXCEPT !.calls[c].out = o], c, IF o = "raise" THEN "raised" ELSE o))

(***************************************************************************)
(* Resumptions of a suspended stop, restart or start.                      *)
(***************************************************************************)
\* base.py line 175: the awaited poll task has ended.
StopWaitDone(c) ==
  /\ calls[c].pc = "stop_woken"
  /\ Apply(SetPc(St, c, "stop_disc"))

\* lines 179-185: disconnect returned (or raised, which is logged).
DisconnectDone(c) ==
  /\ calls[c].pc = "stop_disc"
  /\ LET d == calls[c].d
         S1 == Notified([St EXCEPT !.connected[d] = FALSE], d, "OFFLINE")
     IN IF statusSub = "none"
        THEN Apply(AfterStop(S1, c))
        ELSE Apply(SetPc(S1, c, "stop_notify"))

\* line 185: the status subscriber returned or raised.
StopNotifyDone(c, o) ==
  /\ calls[c].pc = "stop_notify"
  /\ o \in Outcomes(statusSub)
  /\ IF o = "ok" THEN Apply(AfterStop(St, c)) ELSE Apply(StopRaised(St, c))

\* lines 190-191: the 0.5 s pause of restart is over.  The pause outlasts
\* the processing of a pending cancellation, which takes one loop iteration.
RestartSleepDone(c) ==
  /\ calls[c].pc = "sleep"
  /\ ~cancelReq[calls[c].d]
  /\ Apply(DriverStartBegin(St, c))

\* A second live poll task on one instance is not represented: the task is
\* created only when the instance's previous task has ended.
CanCreateTask(c) == task[calls[c].d] \notin TaskLive

\* lines 150-159: connect returned True, returned False, or raised.
ConnectDone(c, o) ==
  /\ calls[c].pc = "start_connect"
  /\ CanCreateTask(c)
  /\ LET d == calls[c].d IN
     CASE o = "ok" ->
            Apply(StartNotify(Connected(St, d, TRUE), c, "ONLINE", "start_notify"))
       [] o = "fail" ->
            Apply(StartNotify(Connected(St, d, FALSE), c, "ERROR", "start_notify"))
       [] o = "raise" ->
            Apply(StartNotify([Connected(St, d, FALSE) EXCEPT !.connected[d] = connected[d]],
                              c, "ERROR", "start_notify2"))

\* the status subscriber called from start returned or raised: inside the
\* try block the handler of line 157 reports ERROR, in the handler the
\* exception leaves start.
StartNotifyDone(c, o) ==
  /\ calls[c].pc \in {"start_notify", "start_notify2"}
  /\ CanCreateTask(c)
  /\ o \in Outcomes(statusSub)
  /\ IF o = "ok" THEN Apply(StartCreateTask(St, c))
     ELSE IF calls[c].pc = "start_notify"
     THEN Apply(StartNotify(St, c, "ERROR", "start_notify2"))
     ELSE Apply(StartRaised(St, c))

(***************************************************************************)
(* Steps of a driver's poll task.                                          *)
(***************************************************************************)
\* A faulty scheduling in which the drivers' I/O is serialized: a poll task
\* takes no step while another driver is inside read or a reconnect attempt.
\* C20 must not survive it.
RunsSerial(d) ==
  /\ task[d] \in TaskLive /\ ~cancelReq[d]
  /\ \A x \in Insts \ {d} : task[x] \notin {"read", "reconnect"}

\* the poll task of d exists and no cancellation of it is pending.
Runs(d) == task[d] \in TaskLive /\ ~cancelReq[d]

PollLoopTop(d) ==
  /\ Runs(d) /\ task[d] \in {"new", "sleep"}
  /\ Apply(LoopTop(St, d))

\* lines 233-237: _try_reconnect returned.
ReconnectDone(d, ok) ==
  /\ Runs(d) /\ task[d] = "reconnect"
  /\ Apply(SetTask(Connected(St, d, ok), d, IF ok THEN "read" ELSE "sleep"))

ReadDoneOk(d, raw) ==
  /\ Runs(d) /\ task[d] = "read"
  /\ Apply(ReadOk(St, d, raw))

ReadDoneFail(d, how) ==
  /\ Runs(d) /\ task[d] = "read"
  /\ error_count[d] < MaxErr
  /\ Apply(ReadFailed(St, d, how))

\* A faulty _handle_value without the try around the subscriber's call: the
\* exception reaches the poll loop's handler of line 269.  C14 must not
\* survive it.
ValueSubDoneAbort(d, o) ==
  /\ Runs(d) /\ task[d] = "value"
  /\ o \in {"ok", "raise"}
  /\ IF o = "raise"
     THEN error_count[d] < MaxErr /\ Apply(HandleError([St EXCEPT !.evt[d] = NoEvt], d, "out"))
     ELSE IF evt[d].idx < Len(valueSubs)
     THEN Apply(Deliver(St, d, evt[d].idx + 1))
     ELSE Apply(NotifyOnline(St, d))

\* _handle_value lines 257-261: a value subscriber returned, or raised and
\* was logged.
ValueSubDone(d, o) ==
  /\ Runs(d) /\ task[d] = "value"
  /\ o \in {"ok", "raise"}
  /\ IF evt[d].idx < Len(valueSubs)
     THEN Apply(Deliver([St EXCEPT !.evt[d].raised = (@ \/ o = "raise")], d, evt[d].idx + 1))
     ELSE Apply(NotifyOnline(St, d))

\* line 260: the status subscriber returned from ONLINE, or raised into the
\* handler of line 269.
OnlineDone(d, o) ==
  /\ Runs(d) /\ task[d] = "online"
  /\ o \in Outcomes(statusSub)
  /\ IF o = "ok" THEN Apply(SetTask(St, d, "sleep"))
     ELSE error_count[d] < MaxErr /\ Apply(HandleError(St, d, "out"))

\* line 301: the status subscriber returned from OFFLINE, or raised: from the
\* read's handlers into the handler of line 269, from that one out of the task.
OfflineDone(d, o) ==
  /\ Runs(d) /\ task[d] \in {"offline_in", "offline_out"}
  /\ o \in Outcomes(statusSub)
  /\ IF o = "ok" THEN Apply(SetTask(St, d, "sleep"))
     ELSE IF task[d] = "offline_in"
     THEN error_count[d] < MaxErr /\ Apply(HandleError(St, d, "out"))
     ELSE Apply(SetTask(St, d, "failed"))

\* lines 173, 267: the task receives the CancelledError and ends; the stops
\* that await it are woken.
TaskCancelled(d) ==
  /\ cancelReq[d] /\ task[d] \in TaskLive
  /\ Apply([St EXCEPT !.task[d] = "done", !.cancelReq[d] = FALSE, !.evt[d] = NoEvt,
                      !.calls = [c \in 1..Len(calls) |->
                                   IF calls[c].pc = "stop_wait" /\ calls[c].d = d
                                   THEN [calls[c] EXCEPT !.pc = "stop_woken"]
                                   ELSE calls[c]]])

(***************************************************************************)
(* Spec: the orchestrator's calls arrive concurrently, the devices and the *)
(* status subscriber are well behaved (connect and read succeed).          *)
(***************************************************************************)
Next ==
  \/ on_processed_value
  \/ on_sensor_status("ok")
  \/ \E sid \in Solo, f \in Formulas, rc \in RetryCounts : add_sensor(sid, f, rc, "ok")
  \/ \E sid \in Solo, k \in {"unknown", "ctor_fail"} : add_sensor(sid, NoFormula, 0, k)
  \/ \E sid \in Solo : remove_sensor(sid)
  \/ \E sid \in Solo, f \in Formulas : update_formula(sid, f)
  \/ \E sid \in Solo : restart_sensor(sid)
  \/ \E sid \in Solo : write_sensor(sid)
  \/ \E c \in 1..Len(calls), o \in {"true", "false", "raise"} : WriteDone(c, o)
  \/ \E c \in 1..Len(calls) : StopWaitDone(c)
  \/ \E c \in 1..Len(calls) : DisconnectDone(c)
  \/ \E c \in 1..Len(calls) : StopNotifyDone(c, "ok")
  \/ \E c \in 1..Len(calls) : RestartSleepDone(c)
  \/ \E c \in 1..Len(calls) : ConnectDone(c, "ok")
  \/ \E c \in 1..Len(calls) : StartNotifyDone(c, "ok")
  \/ \E d \in Insts : PollLoopTop(d)
  \/ \E d \in Insts : ReconnectDone(d, TRUE)
  \/ \E d \in Insts, raw \in Raws : ReadDoneOk(d, raw)
  \/ \E d \in Insts, o \in {"ok", "raise"} : ValueSubDone(d, o)
  \/ \E d \in Insts : OnlineDone(d, "ok")
  \/ \E d \in Insts : TaskCancelled(d)

Spec == Init /\ [][Next]_vars

(***************************************************************************)
(* SpecFault: one call at a time, but the device and the status subscriber *)
(* may fail: connect and read fail or raise, the subscriber raises.        *)
(***************************************************************************)
NextFault ==
  \/ on_processed_value
  \/ statusRegs = 0 /\ \E k \in {"ok", "faulty"} : on_sensor_status(k)
  \/ AllReturned /\ \E sid \in Solo, f \in Formulas, rc \in RetryCounts : add_sensor(sid, f, rc, "ok")
  \/ AllReturned /\ \E sid \in Solo, k \in {"unknown", "ctor_fail"} : add_sensor(sid, NoFormula, 0, k)
  \/ AllReturned /\ \E sid \in Solo : remove_sensor(sid)
  \/ AllReturned /\ \E sid \in Solo : restart_sensor(sid)
  \/ \E c \in 1..Len(calls) : StopWaitDone(c)
  \/ \E c \in 1..Len(calls) : DisconnectDone(c)
  \/ \E c \in 1..Len(calls), o \in {"ok", "raise"} : StopNotifyDone(c, o)
  \/ \E c \in 1..Len(calls) : RestartSleepDone(c)
  \/ \E c \in 1..Len(calls), o \in {"ok", "fail", "raise"} : ConnectDone(c, o)
  \/ \E c \in 1..Len(calls), o \in {"ok", "raise"} : StartNotifyDone(c, o)
  \/ \E d \in Insts : PollLoopTop(d)
  \/ \E d \in Insts, ok \in BOOLEAN : ReconnectDone(d, ok)
  \/ \E d \in Insts, raw \in Raws : ReadDoneOk(d, raw)
  \/ \E d \in Insts, how \in {"read_error", "timeout", "unexpected"} : ReadDoneFail(d, how)
  \/ \E d \in Insts, o \in {"ok", "raise"} : ValueSubDone(d, o)
  \/ \E d \in Insts, o \in {"ok", "raise"} : OnlineDone(d, o)
  \/ \E d \in Insts, o \in {"ok", "raise"} : OfflineDone(d, o)
  \/ \E d \in Insts : TaskCancelled(d)

SpecFault == Init /\ [][NextFault]_vars

(***************************************************************************)
(* SpecSib: two sensors side by side, each with its own driver.  Calls for *)
(* either sensor arrive concurrently; the devices may refuse to connect or  *)
(* time out, so that a driver can be in a reconnect attempt; there is one  *)
(* value subscriber and no status subscriber.                              *)
(***************************************************************************)
SibFormulas == {"val", "val * 2"}

NextSib ==
  \/ Len(valueSubs) = 0 /\ on_processed_value
  \/ \E sid \in SensorIds : add_sensor(sid, "val", 1, "ok")
  \/ \E sid \in SensorIds : add_sensor(sid, NoFormula, 0, "unknown")
  \/ \E sid \in SensorIds : remove_sensor(sid)
  \/ \E sid \in SensorIds, f \in SibFormulas : update_formula(sid, f)
  \/ \E sid \in SensorIds : restart_sensor(sid)
  \/ \E sid \in SensorIds : write_sensor(sid)
  \/ \E c \in 1..Len(calls), o \in {"true", "raise"} : WriteDone(c, o)
  \/ \E c \in 1..Len(calls) : StopWaitDone(c)
  \/ \E c \in 1..Len(calls) : DisconnectDone(c)
  \/ \E c \in 1..Len(calls) : RestartSleepDone(c)
  \/ \E c \in 1..Len(calls), o \in {"ok", "fail"} : ConnectDone(c, o)
  \/ \E d \in Insts : PollLoopTop(d)
  \/ \E d \in Insts, ok \in BOOLEAN : ReconnectDone(d, ok)
  \/ \E d \in Insts, raw \in Raws : ReadDoneOk(d, raw)
  \/ \E d \in Insts : ReadDoneFail(d, "timeout")
  \/ \E d \in Insts : ValueSubDone(d, "ok")
  \/ \E d \in Insts : TaskCancelled(d)

SpecSib == Init /\ [][NextSib]_vars

(***************************************************************************)
(* SpecStop: the shutdown (main.py line 131) arrives while add_sensor and  *)
(* restart_sensor calls for two sensors are in flight; no call is made     *)
(* after stop has returned.  The devices are well behaved and nobody       *)
(* subscribes.                                                             *)
(***************************************************************************)
NextStop ==
  \/ ~stopReturned /\ \E sid \in SensorIds : add_sensor(sid, "val", 1, "ok")
  \/ ~stopReturned /\ \E sid \in SensorIds : restart_sensor(sid)
  \/ ~stopReturned /\ orchestrator_stop
  \/ \E c \in 1..Len(calls) : GatheredStopBegin(c)
  \/ \E c \in 1..Len(calls) : StopWaitDone(c)
  \/ \E c \in 1..Len(calls) : DisconnectDone(c)
  \/ \E c \in 1..Len(calls) : RestartSleepDone(c)
  \/ \E c \in 1..Len(calls) : ConnectDone(c, "ok")
  \/ \E d \in Insts : PollLoopTop(d)
  \/ \E d \in Insts, raw \in Raws : ReadDoneOk(d, raw)
  \/ \E d \in Insts : TaskCancelled(d)

SpecStop == Init /\ [][NextStop]_vars

(***************************************************************************)
(* SpecVirt: a sensor of protocol VIRTUAL_OUTPUT is added, written, read,  *)
(* restarted and removed.                                                  *)
(***************************************************************************)
NextVirt ==
  \/ vo_add_sensor
  \/ vo_remove_sensor
  \/ vo_restart_stopped
  \/ vo_restart_started
  \/ \E v \in VoValues : vo_write_sensor(v)
  \/ vo_read
  \/ vo_poll_loop

SpecVirt == Init /\ [][NextVirt]_vars

(***************************************************************************)
(* SpecFormula: the formula API is called with the expressions and inputs  *)
(* of the model (api/routes/sensors.py lines 171, 261; orchestrator.py     *)
(* line 244).  The installed sandbox library is one of the two kinds for   *)
(* every call of a behaviour.                                              *)
(***************************************************************************)
Libs == {"strict", "lax"}

validate_call(i, lib) ==
  /\ fx.lib \in {"-", lib}
  /\ Apply([St EXCEPT !.fx = [NoFx EXCEPT !.op = "validate", !.expr = i, !.lib = lib,
                                !.valid = (validate_formula(Exprs[i], lib = "strict") = "ok")]])

evaluate_call(i, v, lib) ==
  /\ fx.lib \in {"-", lib}
  /\ LET r == evaluate(Exprs[i], v, lib = "strict") IN
     Apply([St EXCEPT !.fx = [op |-> "evaluate", expr |-> i, val |-> v, lib |-> lib,
                              valid |-> (validate_formula(Exprs[i], lib = "strict") = "ok"),
                              res |-> r.res, executed |-> r.executed]])

NextFormula ==
  \/ \E i \in ExprIds, lib \in Libs : validate_call(i, lib)
  \/ \E i \in ExprIds, v \in Vals, lib \in Libs : evaluate_call(i, v, lib)

SpecFormula == Init /\ [][NextFormula]_vars

(***************************************************************************)
(* SpecRe: one sensor is added, removed and added again, each call made    *)
(* when the one before it has returned.  The device may refuse to connect; *)
(* there is one value subscriber and no status subscriber.                 *)
(***************************************************************************)
NextRe ==
  \/ Len(valueSubs) = 0 /\ on_processed_value
  \/ /\ AllReturned /\ drivers[1] = NoInst
     /\ \E f \in Formulas, rc \in RetryCounts : add_sensor(1, f, rc, "ok")
  \/ AllReturned /\ drivers[1] # NoInst /\ remove_sensor(1)
  \/ \E c \in 1..Len(calls) : StopWaitDone(c)
  \/ \E c \in 1..Len(calls) : DisconnectDone(c)
  \/ \E c \in 1..Len(calls), o \in {"ok", "fail"} : ConnectDone(c, o)
  \/ \E d \in Insts : PollLoopTop(d)
  \/ \E d \in Insts, ok \in BOOLEAN : ReconnectDone(d, ok)
  \/ \E d \in Insts, raw \in Raws : ReadDoneOk(d, raw)
  \/ \E d \in Insts : ValueSubDone(d, "ok")
  \/ \E d \in Insts : TaskCancelled(d)

SpecRe == Init /\ [][NextRe]_vars

(***************************************************************************)
(* Claims about the orchestrator and the driver supervisor.                *)
(***************************************************************************)
Live(d) == running[d] \/ task[d] \in TaskLive

\* C11: when add_sensor with a protocol that has no driver class has returned,
\* it has returned failure, and the registry entry and the formula of its
\* sensor_id are what they were when it was called (the frame's d and oldF),
\* also when the id was registered before.
C11_UnknownProtocolKeepsRegistry ==
  (AllReturned /\ lastReturn.op = "add" /\ lastReturn.kind = "unknown")
    => /\ lastReturn.res = "false"
       /\ drivers[lastReturn.sid] = lastReturn.d
       /\ formulas[lastReturn.sid] = lastReturn.oldF

\* C12: (a) while a remove_sensor is suspended in the stop of its driver, the
\* registry no longer maps the id to that driver, and (b) a write_sensor never
\* finds a driver that a remove_sensor of the same id was stopping when the
\* write was called: if the id has no other driver it returns false and the
\* driver's write is not invoked.
C12_RemovedBeforeWaiting ==
  /\ \A c \in 1..Len(calls) :
        /\ calls[c].op = "remove" => drivers[calls[c].sid] # calls[c].d
        /\ calls[c].op = "write" => calls[c].d \notin calls[c].removing
  /\ lastReturn.op = "write" =>
        /\ lastReturn.d \notin lastReturn.removing
        /\ lastReturn.d = NoInst => (lastReturn.res = "false" /\ lastReturn.writes = 0)

\* a write_sensor that ran while a remove_sensor of its id was suspended has
\* returned false.
C12_Witness ==
  /\ lastReturn.op = "write" /\ lastReturn.removing # {}
  /\ lastReturn.d = NoInst /\ lastReturn.res = "false" /\ lastReturn.writes = 0

\* C13: write_sensor returns false without invoking the driver's write when the
\* id is not registered or its driver is not running; otherwise it invokes the
\* driver's write exactly once and returns what the driver returned, and a
\* write that raised is raised to the caller, with no second invocation.
C13_WriteSensor ==
  /\ \A c \in 1..Len(calls) :
        calls[c].op = "write" =>
          (calls[c].d # NoInst /\ calls[c].wasRunning /\ calls[c].writes = 1)
  /\ lastReturn.op = "write" =>
        IF lastReturn.d = NoInst \/ ~lastReturn.wasRunning
        THEN lastReturn.res = "false" /\ lastReturn.writes = 0
        ELSE /\ lastReturn.writes = 1
             /\ lastReturn.out \in {"true", "false"} => lastReturn.res = lastReturn.out
             /\ lastReturn.out = "raise" <=> lastReturn.res = "raised"

\* write_sensor was called in the stopped window of a restart: the id was
\* registered, its driver not running.
C13_Witness ==
  /\ lastReturn.op = "write" /\ lastReturn.d # NoInst /\ ~lastReturn.wasRunning
  /\ lastReturn.res = "false" /\ lastReturn.writes = 0
  /\ \E c \in 1..Len(calls) : calls[c].op = "restart" /\ calls[c].d = lastReturn.d

\* C14: a value event goes to the value subscribers one after the other in
\* registration order, the first registered first and none left out; when a
\* subscriber raises, the next one still receives the same event, and the
\* driver's error count and connected flag stay as they are and its poll loop
\* goes on.
C14_ValueSubscribersIsolated ==
  [][\A d \in Insts :
       /\ (\E raw \in Raws : ReadDoneOk(d, raw)) /\ Len(valueSubs) > 0
            => delivered'.sub = 1 /\ task'[d] = "value"
       /\ \A o \in {"ok", "raise"} :
            ValueSubDone(d, o) =>
              /\ IF evt[d].idx < Len(valueSubs)
                 THEN /\ task'[d] = "value"
                      /\ delivered'.sub = evt[d].idx + 1
                      /\ delivered'.sid = sensor_id[d]
                      /\ delivered'.raw = evt[d].raw /\ delivered'.proc = evt[d].proc
                 ELSE evt[d].idx = Len(valueSubs) /\ task'[d] \in TaskLive
              /\ o = "raise" => /\ error_count'[d] = error_count[d]
                                /\ connected'[d] = connected[d]
                                /\ running'[d] = running[d]
                                /\ evt[d].idx < Len(valueSubs) => delivered'.afterRaise
  ]_vars

\* the second subscriber has received an event on which the first one raised.
C14_Witness == delivered.sub = 2 /\ delivered.afterRaise /\ ~delivered.late

\* C15: a step in which the status subscriber raises leaves the driver's error
\* count and connected flag as they are and its poll task alive, and a start
\* in which it raises does not end in a failed add_sensor or restart_sensor.
C15_StatusSubscriberIsolated ==
  [][/\ \A d \in Insts :
          (OnlineDone(d, "raise") \/ OfflineDone(d, "raise")) =>
            /\ error_count'[d] = error_count[d]
            /\ connected'[d] = connected[d]
            /\ task'[d] \in TaskLive
     /\ \A c \in 1..Len(calls) :
          StartNotifyDone(c, "raise") =>
            (calls'[c].pc = "done" => lastReturn'.res = "true")
  ]_vars

\* C16: registration appends for both kinds of event: the value subscribers
\* are all those registered, in registration order, and every status event is
\* delivered to every status subscriber registered before it.
C16_RegistrationAppends ==
  /\ valueSubs = [i \in 1..Len(valueSubs) |-> i]
  /\ statusEvt.to = 1..statusEvt.regs

\* what an orchestrator call for sensor a does in one step: the call itself up
\* to its first suspension, or the resumption of a suspended call for a.
CallStep(a) ==
  \/ \E f \in Formulas, rc \in RetryCounts : add_sensor(a, f, rc, "ok")
  \/ add_sensor(a, NoFormula, 0, "unknown")
  \/ remove_sensor(a)
  \/ \E f \in Formulas : update_formula(a, f)
  \/ restart_sensor(a)
  \/ write_sensor(a)
  \/ \E c \in 1..Len(calls) :
        /\ calls[c].sid = a
        /\ \/ \E o \in {"true", "false", "raise"} : WriteDone(c, o)
           \/ StopWaitDone(c)
           \/ DisconnectDone(c)
           \/ RestartSleepDone(c)
           \/ \E o \in {"ok", "fail", "raise"} : ConnectDone(c, o)

\* the registry entry and formula of sensor b, and the flags and error count
\* of every driver made for b.
SiblingState(b) ==
  <<drivers[b], formulas[b],
    [d \in {x \in Insts : sensor_id[x] = b} |->
       <<running[d], connected[d], error_count[d]>>]>>

\* C19: a step of add_sensor, remove_sensor, restart_sensor, update_formula or
\* write_sensor for sensor a leaves the registry entry, the formula, the
\* running and connected flags and the error count of every other sensor b
\* as they are: a step that changes any of these for b is no step of a call
\* for a.
C19_SiblingsUntouched ==
  [][\A a, b \in SensorIds :
       (a # b /\ SiblingState(b)' # SiblingState(b)) => ~CallStep(a)]_vars

\* sensor 2 is registered with a running driver and a formula of its own
\* while a call for sensor 1 has stopped or removed the driver of sensor 1.
C19_Witness ==
  /\ drivers[2] # NoInst /\ running[drivers[2]] /\ connected[drivers[2]]
  /\ formulas[2] = "val"
  /\ lastReturn.sid = 1 /\ lastReturn.op \in {"remove", "restart"}
  /\ lastReturn.res = "true"

C21_OneEventInDelivery ==
  \A a, b \in Insts :
    (a # b /\ sensor_id[a] = sensor_id[b] /\ task[a] = "value") => task[b] # "value"

\* C22: once stop has returned and every add_sensor and restart_sensor that
\* was in flight has returned too, the registry is empty and no driver is
\* running.
C22_StopLeavesNothingRunning ==
  (stopReturned /\ AllReturned) =>
    /\ \A s \in SensorIds : drivers[s] = NoInst /\ formulas[s] = NoFormula
    /\ \A d \in Insts : ~Live(d)

\* C23: a driver that has been started and whose last retry_count connection
\* attempts (the one of start and those of the poll loop) have all failed has
\* OFFLINE as its last reported status.
C23_OfflineAfterFailedConnects ==
  \A d \in Insts :
    (running[d] /\ retry_count[d] > 0 /\ connFails[d] >= retry_count[d])
      => lastStatus[d] = "OFFLINE"

\* C24: a write to the running virtual-output driver delivers the written
\* value through the value callback: after the write, an event carrying the
\* value has gone to the value subscribers.
C24_WriteDeliversValue ==
  vout.last.invoked => vout.last.v \in vout.events

\* C25: a write to the running virtual-output driver returns ok, for every
\* value, and the driver's read then returns the written value.
C25_WriteThenRead ==
  vout.last.invoked =>
    /\ vout.last.res = "true"
    /\ vout.current_value = vout.last.v
    /\ vout.read # None => vout.read = vout.last.v

\* add_sensor has returned True and no call has been made since: the registry
\* holds the instance that this call constructed, it is running, no other
\* instance of the sensor is running or has a task, and a value event being
\* delivered carries the sensor's id and the stored formula applied to the raw
\* value (the raw value when the formula fails).
C26_State ==
  (AllReturned /\ lastReturn.op = "add" /\ lastReturn.res = "true") =>
    LET s == lastReturn.sid
        d == drivers[s]
        r == evaluate_formula(formulas[s], delivered.raw)
    IN /\ d # NoInst /\ d = lastReturn.d
       /\ running[d] /\ sensor_id[d] = s
       /\ formulas[s] # NoFormula
       /\ \A o \in Insts \ {d} : sensor_id[o] = s => ~Live(o)
       /\ task[d] = "value" =>
            /\ delivered.sid = s
            /\ delivered.proc = IF r[1] THEN r[2] ELSE delivered.raw

\* the step in which call c, an add_sensor, returns True leaves the formula
\* of the call in the registry.
C26_Returns(c) ==
  (/\ calls[c].op = "add" /\ calls[c].pc # "done" /\ calls'[c].pc = "done"
   /\ lastReturn'.res = "true")
    => formulas'[calls[c].sid] = calls[c].formula

\* C26: add_sensor(d); remove_sensor(d.id); add_sensor(d), each awaited, ends
\* in the state a single add_sensor(d) ends in: exactly one running driver is
\* registered under d.id, with d's formula, and the values delivered afterwards
\* are processed with it.
C26_ReAddLikeAdd ==
  [][C26_State' /\ \A c \in 1..Len(calls) : C26_Returns(c)]_vars

\* the second add_sensor has returned, after a remove_sensor that returned
\* True, and a value of the new driver is with the subscriber.
C26_Witness ==
  /\ AllReturned /\ Len(calls) = 3 /\ nextInst = 2
  /\ lastReturn.op = "add" /\ lastReturn.res = "true" /\ lastReturn.d = 2
  /\ formulas[1] = "val * 2"
  /\ task[2] = "value" /\ delivered.proc = 6

(***************************************************************************)
(* Claims about the formula engine.                                        *)
(***************************************************************************)
\* C27: evaluate fails with invalid-formula exactly when validate rejects the
\* expression, and then the expression is not executed; when validate accepts
\* it, evaluate returns a scalar or fails with division-by-zero or type-error.
C27_EvaluateAfterValidate ==
  fx.op = "evaluate" =>
    /\ (fx.res.k = "invalid-formula") <=> ~fx.valid
    /\ ~fx.valid => ~fx.executed
    /\ fx.valid => fx.res.k \in {"ok", "division-by-zero", "type-error"}

\* the names an expression refers to
RECURSIVE Names(_)
Names(x) ==
  (IF x.tag = "name" THEN {[name |-> x.name, lead |-> x.lead, trail |-> x.trail]}
   ELSE {})
  \cup UNION {Names(x.args[i]) : i \in 1..Len(x.args)}

AllowedNames == InputNames \cup MathConstants \cup SafeFunctions
ForeignName(x) ==
  \E w \in Names(x) : w.lead = 0 /\ w.trail = 0 /\ w.name \notin AllowedNames
DoubleUnderscore(x) == \E w \in Identifiers(x) : w.lead >= 2
ImportLike(x) == \E w \in Words(x) : w.name = "import"
\* the names of input and output and of the system modules
SystemWords == {"open", "file", "input", "os", "sys", "subprocess", "socket"}
SystemCall(x) == \E w \in Names(x) : w.lead = 0 /\ w.name \in SystemWords

\* arithmetic over numbers, the input variable, the constants and calls of
\* the safe functions
RECURSIVE Arithmetic(_)
Arithmetic(x) ==
  CASE x.tag = "num" -> TRUE
    [] x.tag = "name" -> x.lead = 0 /\ x.name \in InputNames \cup MathConstants
    [] x.tag = "bin" -> Arithmetic(x.args[1]) /\ Arithmetic(x.args[2])
    [] x.tag = "call" ->
         /\ x.args[1].tag = "name" /\ x.args[1].name \in SafeFunctions
         /\ \A i \in 2..Len(x.args) : Arithmetic(x.args[i])
    [] OTHER -> FALSE

\* C28: validate rejects every expression that refers to a name outside the
\* allowed set, to an identifier that starts with two underscores, to an
\* import or to an input, output or system call, and accepts arithmetic over
\* the input variable and the safe functions.
C28_ValidateSandbox ==
  fx.op # "-" =>
    LET x == Exprs[fx.expr] IN
    /\ (ForeignName(x) \/ DoubleUnderscore(x) \/ ImportLike(x) \/ SystemCall(x))
         => ~fx.valid
    /\ Arithmetic(x) => fx.valid

\* C2: no value event for a sensor is delivered to a value subscriber after
\* remove_sensor of that sensor has returned True (and before the sensor is
\* added again).
C2_NoValueAfterRemove == ~delivered.late

\* C34: a value event of a driver whose sensor_id is in the registry neither
\* with a driver nor with a formula at the moment _handle_value looks the
\* formula up is dropped: no step hands such an event to a value subscriber.
C34_UnregisteredDropped ==
  [][\A d \in Insts :
       (task[d] # "value" /\ task'[d] = "value" /\ delivered' # delivered)
         => (drivers[sensor_id[d]] # NoInst \/ formulas[sensor_id[d]] # NoFormula)]_vars

\* C35: when the formula registered for a sensor fails on a raw value, the
\* event still goes to the first value subscriber with processed = raw, each
\* further subscriber gets the event as it was produced, and the driver goes
\* on: its poll task stays alive, it keeps running and the failure is not
\* counted as a read error.
C35_FormulaFails(d, raw) ==
  /\ formulas[sensor_id[d]] \in Formulas
  /\ ~evaluate_formula(formulas[sensor_id[d]], raw)[1]
C35_FormulaFailureKeepsRaw ==
  [][\A d \in Insts :
       /\ \A raw \in Raws :
            (ReadDoneOk(d, raw) /\ Len(valueSubs) > 0 /\ C35_FormulaFails(d, raw))
              => /\ delivered'.sub = 1 /\ delivered'.sid = sensor_id[d]
                 /\ delivered'.raw = raw /\ delivered'.proc = raw
                 /\ evt'[d].raw = raw /\ evt'[d].proc = raw
                 /\ task'[d] = "value" /\ running'[d] = running[d]
                 /\ error_count'[d] = 0
       /\ ((\E o \in {"ok", "raise"} : ValueSubDone(d, o)) /\ evt[d].idx < Len(valueSubs))
            => /\ delivered'.sub = evt[d].idx + 1
               /\ delivered'.raw = evt[d].raw /\ delivered'.proc = evt[d].proc
               /\ evt'[d].raw = evt[d].raw /\ evt'[d].proc = evt[d].proc
               /\ task'[d] = "value" /\ error_count'[d] = error_count[d]
       /\ ((\E o \in {"ok", "raise"} : ValueSubDone(d, o)) /\ evt[d].idx >= Len(valueSubs))
            => task'[d] \in TaskLive /\ error_count'[d] = error_count[d]]_vars

\* the second of two subscribers has the event of a sensor whose formula is
\* val / 0, with the raw value as processed value.
C35_Witness ==
  /\ delivered.sub = 2 /\ Len(valueSubs) = 2 /\ ~delivered.late
  /\ formulas[delivered.sid] = "val / 0"
  /\ delivered.raw \in Raws /\ delivered.proc = delivered.raw
  /\ \E d \in Insts : /\ drivers[delivered.sid] = d /\ task[d] = "value"
                       /\ evt[d].idx = 2 /\ evt[d].proc = evt[d].raw

\* C36: when BaseDriver.stop, called on a running driver, returns (after
\* disconnect, and after the OFFLINE notification was taken), the driver is
\* not running and not connected, the last status emitted for it is OFFLINE
\* and no poll task of it is left that could deliver an event (a task that
\* is left has a cancellation pending, or stands at the loop test with
\* running false, which ends it).
C36_StopReturns(c) ==
  \/ DisconnectDone(c) /\ statusSub = "none"
  \/ StopNotifyDone(c, "ok")
C36_StoppedAfterStop ==
  [][\A c \in 1..Len(calls) :
       C36_StopReturns(c) =>
         LET d == calls[c].d IN
         /\ ~running'[d] /\ ~connected'[d]
         /\ lastStatus'[d] = "OFFLINE"
         /\ task'[d] \in TaskLive =>
              (cancelReq'[d] \/ (~running'[d] /\ task'[d] \in {"new", "sleep"}))]_vars

\* C37: when the target_formula of a rule that fires cannot be computed, a
\* later rule whose condition is met by the same value event and which is out
\* of its cooldown is still evaluated and invokes its write.
C37_Met(rule, values, t) ==
  /\ ~InCooldown(rule, t)
  /\ ~eval_condition(rule, values)[1] /\ eval_condition(rule, values)[2]
C37_FormulaFailureIsLocal ==
  [][\A e \in AutoSensors, v \in Values, imm \in [1..Len(rules) -> WriteNow] :
       (/\ handle_update(e, v, imm) /\ auto_running /\ Len(rules) = 2
        /\ rules[1].target_formula = "bad" /\ rules[2].target_formula = "none"
        /\ C37_Met(rules[1], (e :> v) @@ sensor_values, clock)
        /\ C37_Met(rules[2], (e :> v) @@ sensor_values, clock)
        /\ lastWrite[2] # clock)
         => lastWrite'[2] = clock]_vars

\* C38: a rule whose condition names a sensor without a value invokes no
\* write and keeps its last_triggered in every step, and in the handling of
\* a new value a later rule whose condition is met and which is out of its
\* cooldown still invokes its write.
C38_NewValue(e) ==
  /\ auto_running /\ evalCall[e].pc = "idle"
  /\ e \in DOMAIN sensor_values'
  /\ (e \in DOMAIN sensor_values => sensor_values'[e] # sensor_values[e])
C38_UnevaluableRuleSkipped ==
  [][/\ \A i \in 1..Len(rules) :
          rules[i].sensor \notin DOMAIN sensor_values'
            => /\ lastWrite'[i] = lastWrite[i] /\ lastGap'[i] = lastGap[i]
               /\ rules'[i].last_triggered = rules[i].last_triggered
     /\ \A e \in AutoSensors :
          (/\ C38_NewValue(e) /\ Len(rules) = 2
           /\ rules[1].sensor \notin DOMAIN sensor_values'
           /\ ~InCooldown(rules[1], clock)
           /\ rules[2].target_formula = "none"
           /\ C37_Met(rules[2], sensor_values', clock)
           /\ lastWrite[2] # clock)
            => lastWrite'[2] = clock]_vars

\* the first rule names a sensor that has no value and has never fired, and
\* the second rule has invoked its write.
C38_Witness ==
  /\ auto_running /\ Len(rules) = 2
  /\ rules[1].sensor \notin DOMAIN sensor_values
  /\ lastWrite[1] = -1 /\ rules[1].last_triggered = 0
  /\ rules[2].sensor \in DOMAIN sensor_values
  /\ lastWrite[2] # -1 /\ rules[2].last_triggered = lastWrite[2]

\* C39: the handling of one value event invokes write_sensor at most once
\* per rule and ends after at most one resumption per rule: a step of the
\* handling starts no evaluation for another sensor, invokes no rule twice,
\* and a resumed evaluation goes on behind the rule whose write it awaited,
\* leaving that rule and the rules before it alone.
C39_NoEvalStarted(e) ==
  \A s \in AutoSensors \ {e} : evalCall'[s] = evalCall[s]
C39_OncePerStep ==
  \A i \in 1..Len(rules) :
    (lastWrite[i] # clock /\ lastWrite'[i] = clock)
      => lastGap'[i] = (IF lastWrite[i] = -1 THEN -1 ELSE clock - lastWrite[i])
C39_Begins(e) == C38_NewValue(e) \/ (evalCall[e].pc = "idle" /\ evalCall'[e].pc = "write")
C39_Resumes(e) == evalCall[e].pc = "write" /\ evalCall'[e] # evalCall[e]
C39_OneWritePerRule ==
  [][/\ C39_OncePerStep
     /\ \A e \in AutoSensors :
          /\ C39_Begins(e)
               => /\ C39_NoEvalStarted(e)
                  /\ evalCall'[e].pc = "write" => evalCall'[e].rule \in 1..Len(rules)
          /\ C39_Resumes(e)
               => /\ C39_NoEvalStarted(e)
                  /\ evalCall'[e].pc = "write" =>
                       /\ evalCall'[e].rule \in (evalCall[e].rule + 1)..Len(rules)
                       /\ evalCall'[e].now = evalCall[e].now
                  /\ \A i \in 1..evalCall[e].rule :
                       lastWrite'[i] = lastWrite[i] /\ lastGap'[i] = lastGap[i]]_vars

\* the write of the second rule is awaited after the write of the first rule
\* has returned in the same evaluation.
C39_Witness ==
  \E e \in AutoSensors :
    /\ evalCall[e].pc = "write" /\ evalCall[e].rule = 2
    /\ rules[1].last_triggered = evalCall[e].now
    /\ lastWrite[1] = evalCall[e].now /\ lastWrite[2] = evalCall[e].now
    /\ lastGap[1] = -1 /\ lastGap[2] = -1

\* C6: (a) a value event emitted after update_formula(id, F) has returned True
\* is delivered with processed = F(raw) whenever F evaluates on raw, and
\* (b) a step of update_formula leaves the running and connected flags, the
\* error count and the poll task of every driver as they are.
C6_Processed ==
  LET r == evaluate_formula(delivered.upd, delivered.raw) IN
  (delivered.sub # 0 /\ delivered.upd # NoFormula /\ r[1]) => delivered.proc = r[2]
C6_NoRestart ==
  (\E sid \in SensorIds, f \in Formulas : update_formula(sid, f))
    => UNCHANGED <<running, connected, error_count, task, cancelReq, lastStatus>>
C6_UpdateFormula == []C6_Processed /\ [][C6_NoRestart]_vars
C6_Witness ==
  /\ delivered.sub # 0 /\ delivered.upd = "val * 2"
  /\ delivered.proc = 2 * delivered.raw
  /\ lastReturn.op = "update" /\ lastReturn.res = "true"

\* C7: the poll loop marks a driver offline only when retry_count consecutive
\* reads have failed since the last good read, and it has done so whenever
\* that many have failed.
C7_OfflineAtRetryCount ==
  \A d \in Insts :
    /\ loopOffline[d] => fails[d] >= retry_count[d]
    /\ (retry_count[d] > 0 /\ fails[d] >= retry_count[d]) => loopOffline[d]

\* C8: a value event is delivered only after a good read, with the driver not
\* marked offline by the loop, and the error counter holds no more than the
\* read failures since the last good read (a good read resets it).
C8_SuccessResets ==
  \A d \in Insts :
    /\ task[d] = "value" => (~loopOffline[d] /\ error_count[d] = 0)
    /\ error_count[d] <= fails[d]

\* C9: once every call has returned, each driver instance that is running is
\* the instance registered for its sensor_id.
C9_OnlyRegisteredRun ==
  AllReturned =>
    \A d \in Insts : Live(d) => (sensor_id[d] \in SensorIds /\ drivers[sensor_id[d]] = d)

\* C10: after add_sensor has failed in the constructor or in start, neither a
\* driver nor a formula is registered for its sensor_id and the failed driver
\* is not running.
C10_FailedAddLeavesNothing ==
  (AllReturned /\ lastReturn.op = "add" /\ lastReturn.res = "false"
     /\ lastReturn.failedAt \in {"ctor", "start"})
  => /\ drivers[lastReturn.sid] = NoInst
     /\ formulas[lastReturn.sid] = NoFormula
     /\ (lastReturn.d # NoInst => task[lastReturn.d] \notin TaskLive)

Count(q, x) == Cardinality({i \in 1..Len(q) : q[i] = x})
HasRow(id) == \E r \in rows : r.id = id

\* C3: a reading that add accepted is accepted by the sink exactly once.  The
\* safety half, for flushes that run one after the other: the sink never
\* accepts the same reading twice.
C3_AtMostOnce ==
  ~flushOverlap => \A id \in 1..MaxReadings : Count(sinkLog, id) <= 1

\* C30: two flushes that are in flight together have submitted no row in
\* common to the sink: their batches are disjoint.
C30_FlushesDisjoint ==
  \A f, g \in Flushers :
    (f # g /\ flushCall[f].pc # "idle" /\ flushCall[g].pc # "idle")
      => InSeq(flushCall[f].batch) \cap InSeq(flushCall[g].batch) = {}

\* C31: add does not hand a reading to the sink directly while an earlier
\* reading of the same sensor is a row that is not synced yet, so that the
\* sink receives the readings of one sensor in the order they were added.
C31_NoDirectWritePastBuffered ==
  \A s \in BufferSensorIds :
    addCall[s].pc = "direct" =>
      ~\E r \in rows : r.sensor_id = s /\ ~r.synced /\ r.id < addCall[s].id

\* the step of the add of sensor s: what it does to the paths of C32
C32_Step(s) ==
  LET c == addCall[s] IN
  \* the direct write is attempted only in cloud mode with the sink connected
  /\ (c.pc = "idle" /\ addCall'[s].pc = "direct") => (cloud_available /\ sinkConnected)
  \* a failed direct write leaves cloud mode before the row is stored
  /\ (c.pc = "direct" /\ addCall'[s].pc = "persist") =>
       (~cloud_available' /\ rows' = rows /\ sinkLog' = sinkLog)
  \* add returns True from the direct write: the sink has the reading, no row
  /\ (c.pc = "direct" /\ addCall'[s].pc = "idle") =>
       (/\ c.id \in accepted' /\ sinkLog' = Append(sinkLog, c.id)
        /\ rows' = rows /\ ~HasRow(c.id))
  \* add returns True from the commit: one unsynced row, nothing at the sink
  /\ (c.pc = "persist" /\ addCall'[s].pc = "idle" /\ c.id \in accepted') =>
       (/\ sinkLog' = sinkLog /\ Count(sinkLog, c.id) = 0
        /\ ~HasRow(c.id)
        /\ \E r \in rows' : /\ rows' = rows \cup {r}
                             /\ r.id = c.id /\ r.sensor_id = s /\ ~r.synced)

\* C32: an add that returns True has taken exactly one path: the sink accepted
\* the reading in a direct write and no row was created, or a row with
\* synced=false was stored; the direct write is attempted only when
\* cloud_available is true and the sink is connected, and a failed direct
\* write sets cloud_available to false before the row is stored.
C32_OnePathPerAdd == [][\A s \in BufferSensorIds : C32_Step(s)]_vars

\* one reading went to the sink directly and has no row; another one was
\* stored as a row after its direct write had failed.
C32_Witness ==
  /\ ~cloud_available
  /\ \E a, b \in accepted :
       /\ a # b
       /\ Count(sinkLog, a) = 1 /\ ~HasRow(a)
       /\ Count(sinkLog, b) = 0 /\ \E r \in rows : r.id = b /\ ~r.synced

C4_OnDiskOrAtSink ==
  /\ \A id \in accepted : HasRow(id) \/ Count(sinkLog, id) >= 1
  /\ \A r \in rows : r.synced => Count(sinkLog, r.id) >= 1
C4_Witness ==
  /\ \E id \in accepted : ~HasRow(id) /\ Count(sinkLog, id) >= 1
  /\ \E r \in rows : r.synced
  /\ \E r \in rows : ~r.synced

\* C5: of two rows of one sensor, the one with the later timestamp is never
\* synced while the one with the earlier timestamp is unsynced.
C5_SyncedInOrder ==
  \A r1, r2 \in rows :
    (r1.sensor_id = r2.sensor_id /\ r1.timestamp < r2.timestamp /\ r2.synced)
      => r1.synced
C5_Witness ==
  \E r1, r2, r3 \in rows :
    /\ r1.sensor_id = r2.sensor_id /\ r2.sensor_id = r3.sensor_id
    /\ r1.timestamp < r2.timestamp /\ r2.timestamp < r3.timestamp
    /\ r1.synced /\ r2.synced /\ ~r3.synced

\* C18: cleanup_synced(horizon) deletes exactly the rows that are synced and
\* whose synced_at is older than now minus the horizon, and keeps every
\* other row.
C18_CleanupHonoursHorizon ==
  [][\A h \in Horizons :
       cleanup_synced(h) =>
         rows' = {r \in rows : ~(r.synced /\ r.synced_at < now - h)}]_vars

\* the timestamp of the row with this id
TimestampOf(id) == (CHOOSE r \in rows : r.id = id).timestamp

\* C17: once the quiet period of the sink has begun, the drain loop leads to
\* a state in which every row is synced, and what the sink accepts in the
\* quiet period arrives in ascending timestamp order.
C17_DrainLoopSyncsAll ==
  /\ quiet.on ~> AllSynced
  /\ [](quiet.on =>
          \A i, j \in (quiet.log + 1)..Len(sinkLog) :
            i < j => TimestampOf(sinkLog[i]) < TimestampOf(sinkLog[j]))

\* more rows than one batch were unsynced when the quiet period began, and
\* all of them have reached the sink and are synced.
C17_Witness ==
  /\ quiet.on /\ quiet.rows > batch_size
  /\ AllSynced /\ Len(sinkLog) = quiet.log + quiet.rows

\* C29: when write_sensor has been invoked for a rule and no invocation for it
\* is still suspended, the rule's last_triggered has been set to the time of
\* an evaluation (never 0, never after the latest invocation), whatever the
\* write returned or raised.
C29_FiringSetsLastTriggered ==
  \A i \in 1..Len(rules) :
    (/\ lastWrite[i] # -1
     /\ \A e \in AutoSensors : ~(evalCall[e].pc = "write" /\ evalCall[e].rule = i))
      => /\ rules[i].last_triggered > 0
         /\ rules[i].last_triggered <= lastWrite[i]

\* C1: any two invocations of write_sensor made for one rule are at least the
\* rule's cooldown_s apart, here as long as no write has raised.
C1_CooldownRespected ==
  ~writeRaised =>
    \A i \in 1..Len(rules) : lastGap[i] = -1 \/ lastGap[i] >= rules[i].cooldown_s
====
